---- MODULE Spec2Model ----
(***************************************************************************)
(* A model of the evio version 6 (HIPO record format) library:             *)
(*   - the ring-based multi-thread writer (WriterMT / RecordSupply),       *)
(*   - the record header codec (RecordHeader.java),                        *)
(*   - the file a writer produces and the Reader opened on it (Reader.cpp),*)
(*   - the writer that splits its output over several files.               *)
(* Each subsystem has its own variables and its own specification; the     *)
(* variables of the other subsystems stay at their idle values.            *)
(***************************************************************************)
EXTENDS Integers, Sequences, FiniteSets, TLC

(***************************************************************************)
(* Bounds of the model.                                                    *)
(***************************************************************************)
\* ring sizes explored are 2^1 .. 2^MaxRingPow
MaxRingPow == 2
\* compression threads explored are 1 .. MaxCompThreads (and < ringSize)
MaxCompThreads == 2
\* number of addEvent calls made by the producer
MaxEvents == 5
\* the record's maximum event count is drawn from 1 .. MaxEventCount
MaxEventCount == 2

VARIABLES
    \* ---- ring writer: configuration
    ringSize,           \* number of RecordRingItem slots (power of two)
    compThreads,        \* N, number of compressor workers
    maxEventCount,      \* events a record accepts before it is full
    \* ---- ring writer: the ring slots (index = sequence mod ringSize)
    slotEvents,         \* slot -> sequence of event ordinals in its record
    slotBuilt,          \* slot -> TRUE once record.build() has run
    \* ---- ring writer: sequence gates
    nextSequence,       \* next sequence the producer will claim
    publishedSequence,  \* last sequence published by the producer (-1: none)
    compSequence,       \* compressor k -> last sequence it marked done
    writerSequence,     \* number of sequences released by the writer
    \* ---- ring writer: the threads
    prodHold,           \* sequence the producer is filling, -1 when none
    inAddEvent,         \* TRUE while addEvent waits for a free slot
    numEvents,          \* addEvent calls made so far
    compNext,           \* compressor k -> next sequence of its stride
    compHold,           \* compressor k -> sequence being compressed, -1
    compAlive,          \* compressor k -> thread still running
    writerHold,         \* sequence the writer is writing, -1 when none
    writerAlive,        \* writer thread still running
    closeState,         \* "open", "draining", "joining", "closed"
    markerSequence,     \* sequence of the end-of-stream marker slot, -1 before close
    stopRequested,      \* close() asked the workers to stop
    file,               \* records written to the output, in file order
    \* ---- ring writer: history, for the ownership and ordering claims
    stage,              \* sequence -> the party that last took it
    overtaken,          \* TRUE once a later record was built before an earlier
    \* ---- header codec (RecordHeader.java)
    hdr,                \* the RecordHeader object that is built and written
    hdrCalls,           \* setter calls made on hdr so far
    hbuf,               \* the 56 bytes of the ByteBuffer
    hbufOrder,          \* the ByteBuffer's byte order, "LE" or "BE"
    hbufOrderOnEntry,   \* the buffer's byte order when readHeader was called
    hdr2,               \* the RecordHeader object filled by readHeader
    hdrPhase,           \* "build", "written", "read"
    hdrThrown,          \* the error readHeader raised, "none" when it returned
    \* ---- file writer and Reader (Reader.cpp)
    fw,                 \* the writer: configuration, events added, open record
    fbytes,             \* the bytes of the file
    rd,                 \* the Reader: status of its construction, record positions
    rdGot,              \* the last getEvent call: index asked and event returned
    \* ---- splitting writer
    sp,                 \* the writer: split size, events added, open record
    spFiles,            \* the files written, each a sequence of items
    \* ---- evioswap
    sw,                 \* the event being swapped: buffers, mode, progress
    \* ---- Reader on a buffer: removeStructure / addStructure
    ed,                 \* the reader, its buffer, its nodes, the last call
    \* ---- Reader: sequential access
    sq,                 \* the reader's cursor and the calls made on it
    \* ---- Reader: record-number sequence check
    rn                  \* the data scanned and what the scan did

ringConfig == <<ringSize, compThreads, maxEventCount>>

ringVars == <<ringConfig, slotEvents, slotBuilt,
              nextSequence, publishedSequence, compSequence, writerSequence,
              prodHold, inAddEvent, numEvents, compNext, compHold, compAlive,
              writerHold, writerAlive, closeState, markerSequence,
              stopRequested, file, stage, overtaken>>

hdrVars == <<hdr, hdrCalls, hbuf, hbufOrder, hbufOrderOnEntry, hdr2,
             hdrPhase, hdrThrown>>

fileVars == <<fw, fbytes, rd, rdGot>>

splitVars == <<sp, spFiles>>

swapVars == <<sw>>

editVars == <<ed>>

seqVars == <<sq>>

scanVars == <<rn>>

laterVars == <<swapVars, editVars, seqVars, scanVars>>

\* the variables of the other subsystems, which the ring writer leaves alone
notRingVars == <<hdrVars, fileVars, splitVars, laterVars>>

\* the variables of the other subsystems, which the header codec leaves alone
notHdrVars == <<ringVars, fileVars, splitVars, laterVars>>

\* the variables of the other subsystems, which file writer and reader leave alone
notFileVars == <<ringVars, hdrVars, splitVars, laterVars>>

\* the variables of the other subsystems, which the splitting writer leaves alone
notSplitVars == <<ringVars, hdrVars, fileVars, laterVars>>

earlierVars == <<ringVars, hdrVars, fileVars, splitVars>>

\* the variables of the other subsystems, which evioswap leaves alone
notSwapVars == <<earlierVars, editVars, seqVars, scanVars>>

\* the variables of the other subsystems, which structure editing leaves alone
notEditVars == <<earlierVars, swapVars, seqVars, scanVars>>

\* the variables of the other subsystems, which sequential access leaves alone
notSeqVars == <<earlierVars, swapVars, editVars, scanVars>>

\* the variables of the other subsystems, which the record scan leaves alone
notScanVars == <<earlierVars, swapVars, editVars, seqVars>>

vars == <<ringVars, hdrVars, fileVars, splitVars, laterVars>>

(***************************************************************************)
(* Header codec: RecordHeader.java                                         *)
(***************************************************************************)
HEADER_SIZE_WORDS == 14
HEADER_SIZE_BYTES == 56
\* 0xc0da0100 as a Java int
HEADER_MAGIC == -1059454720
HEADER_MAGIC_LE == HEADER_MAGIC
\* 0x0010dac0
HEADER_MAGIC_BE == 1104576

\* the most setter calls made on one header
MaxSetterCalls == 2

ByteOrders == {"LE", "BE"}

\* ---- java.nio.ByteBuffer: absolute putInt / getInt / putLong / getLong.
\* An int is a signed 32-bit value; a long is the pair <<high int, low int>>.
\* IntBytes gives the four bytes, most significant first.
IntBytes(v) ==
    <<(v \div 16777216) % 256, (v \div 65536) % 256, (v \div 256) % 256, v % 256>>

BytesInt(b) ==
    (IF b[1] >= 128 THEN b[1] - 256 ELSE b[1]) * 16777216
    + b[2] * 65536 + b[3] * 256 + b[4]

Reverse(b) == [i \in 1..Len(b) |-> b[Len(b) + 1 - i]]

LongBytes(l) == IntBytes(l[1]) \o IntBytes(l[2])
BytesLong(b) == <<BytesInt(SubSeq(b, 1, 4)), BytesInt(SubSeq(b, 5, 8))>>

PutBytes(buf, index, b) ==
    [i \in 1..Len(buf) |->
        IF i > index /\ i <= index + Len(b) THEN b[i - index] ELSE buf[i]]

putInt(buf, order, index, v) ==
    PutBytes(buf, index, IF order = "BE" THEN IntBytes(v) ELSE Reverse(IntBytes(v)))

getInt(buf, order, index) ==
    LET b == SubSeq(buf, index + 1, index + 4)
    IN  BytesInt(IF order = "BE" THEN b ELSE Reverse(b))

putLong(buf, order, index, l) ==
    PutBytes(buf, index, IF order = "BE" THEN LongBytes(l) ELSE Reverse(LongBytes(l)))

getLong(buf, order, index) ==
    LET b == SubSeq(buf, index + 1, index + 8)
    IN  BytesLong(IF order = "BE" THEN b ELSE Reverse(b))

FlipOrder(order) == IF order = "BE" THEN "LE" ELSE "BE"

\* ---- the RecordHeader object
\* field initialisers
HeaderFields ==
    [position |-> 0, recordLength |-> 0, recordNumber |-> 0, entries |-> 0,
     headerLength |-> 0, userHeaderLength |-> 0, indexLength |-> 0,
     dataLength |-> 0, compressedDataLength |-> 0, compressionType |-> 0,
     userHeaderLengthPadding |-> 0, dataLengthPadding |-> 0,
     compressedDataLengthPadding |-> 0, recordLengthPadding |-> 0,
     dataLengthWords |-> 0, compressedDataLengthWords |-> 0,
     userHeaderLengthWords |-> 0, recordLengthWords |-> 0,
     headerLengthWords |-> 0,
     recordUserRegisterFirst |-> <<0, 0>>, recordUserRegisterSecond |-> <<0, 0>>,
     headerVersion |-> 6, headerMagicWord |-> 0]

\* new RecordHeader()
NewRecordHeader == [HeaderFields EXCEPT !.headerMagicWord = HEADER_MAGIC_LE]

\* new RecordHeader(_pos, _l, _e)
NewRecordHeaderAt(pos, l, e) ==
    [HeaderFields EXCEPT !.position = pos, !.recordLength = l, !.entries = e]

\* reset(): the version and the magic word are left as they are
reset(h) ==
    [HeaderFields EXCEPT !.headerVersion = h.headerVersion,
                         !.headerMagicWord = h.headerMagicWord]

\* Java int arithmetic: length % 4 and length / 4 truncate towards zero, and
\* words * 4 wraps to 32 bits
JavaRem4(a) == IF a >= 0 THEN a % 4 ELSE 0 - ((4 - (a % 4)) % 4)
JavaDiv4(a) == IF a >= 0 THEN a \div 4 ELSE (a + ((4 - (a % 4)) % 4)) \div 4
JavaTimes4(a) ==
    LET low == a % 1073741824
    IN  IF low >= 536870912 THEN (low - 1073741824) * 4 ELSE low * 4

padValue == <<0, 3, 2, 1>>
\* padValue[length % 4] is an ArrayIndexOutOfBoundsException when length % 4
\* is negative
PaddingThrows(length) == JavaRem4(length) < 0
getPadding(length) == IF PaddingThrows(length) THEN 0 ELSE padValue[JavaRem4(length) + 1]
getWords(length) == JavaDiv4(length) + (IF getPadding(length) > 0 THEN 1 ELSE 0)

setRecordNumber(h, num) == [h EXCEPT !.recordNumber = num]
setVersion(h, version) == [h EXCEPT !.headerVersion = version]
setLength(h, length) ==
    IF PaddingThrows(length)
    THEN [h EXCEPT !.recordLength = length]
    ELSE [h EXCEPT !.recordLength = length,
                   !.recordLengthWords = getWords(length),
                   !.recordLengthPadding = getPadding(length)]
setDataLength(h, length) ==
    IF PaddingThrows(length)
    THEN [h EXCEPT !.dataLength = length]
    ELSE [h EXCEPT !.dataLength = length,
                   !.dataLengthWords = getWords(length),
                   !.dataLengthPadding = getPadding(length)]
setCompressedDataLength(h, length) ==
    IF PaddingThrows(length)
    THEN [h EXCEPT !.compressedDataLength = length]
    ELSE [h EXCEPT !.compressedDataLength = length,
                   !.compressedDataLengthWords = getWords(length),
                   !.compressedDataLengthPadding = getPadding(length)]
setIndexLength(h, length) == [h EXCEPT !.indexLength = length]
setCompressionType(h, type) == [h EXCEPT !.compressionType = type]
setEntries(h, n) == [h EXCEPT !.entries = n]
setUserHeaderLength(h, length) ==
    IF PaddingThrows(length)
    THEN [h EXCEPT !.userHeaderLength = length]
    ELSE [h EXCEPT !.userHeaderLength = length,
                   !.userHeaderLengthWords = getWords(length),
                   !.userHeaderLengthPadding = getPadding(length)]
setHeaderLength(h, length) ==
    [h EXCEPT !.headerLength = length, !.headerLengthWords = JavaDiv4(length)]
setUserRegisterFirst(h, reg) == [h EXCEPT !.recordUserRegisterFirst = reg]
setUserRegisterSecond(h, reg) == [h EXCEPT !.recordUserRegisterSecond = reg]

\* (pad1 << 20) | (pad2 << 22) | (pad3 << 24) | (version & 0xFF)
getBitInfoWord(h) ==
    h.userHeaderLengthPadding * 1048576
    + h.dataLengthPadding * 4194304
    + h.compressedDataLengthPadding * 16777216
    + (h.headerVersion % 256)

\* (words & 0x0FFFFFFF) | ((type & 0xF) << 28), as a signed int
CompressedWord(words, type) ==
    (words % 268435456)
    + (IF type % 16 >= 8 THEN (type % 16) - 16 ELSE type % 16) * 268435456

\* writeHeader(buffer, offset) with offset 0
writeHeader(h, buf, order) ==
    LET b0 == putInt(buf, order, 0, h.recordLengthWords)
        b1 == putInt(b0, order, 4, h.recordNumber)
        b2 == putInt(b1, order, 8, h.headerLength)
        b3 == putInt(b2, order, 12, h.entries)
        b4 == putInt(b3, order, 16, h.indexLength)
        b5 == putInt(b4, order, 20, getBitInfoWord(h))
        b6 == putInt(b5, order, 24, h.userHeaderLength)
        b7 == putInt(b6, order, 28, h.headerMagicWord)
        b8 == putInt(b7, order, 32, h.dataLength)
        b9 == putInt(b8, order, 36,
                     CompressedWord(h.compressedDataLengthWords, h.compressionType))
        b10 == putLong(b9, order, 40, h.recordUserRegisterFirst)
    IN  putLong(b10, order, 48, h.recordUserRegisterSecond)

\* The byte order readHeader leaves the buffer in: flipped when the magic
\* word reads as HEADER_MAGIC_BE, otherwise kept
readHeaderOrder(buf, order) ==
    LET magic == getInt(buf, order, 28)
    IN  IF magic # HEADER_MAGIC_LE /\ magic = HEADER_MAGIC_BE
        THEN FlipOrder(order)
        ELSE order

\* The error readHeader raises.  The bad-magic and the wrong-version branches
\* are empty, so neither raises; the only exception is the one of getPadding
\* on a negative length.
readHeaderThrows(buf, order) ==
    LET o == readHeaderOrder(buf, order)
    IN  IF PaddingThrows(getInt(buf, o, 24)) \/ PaddingThrows(getInt(buf, o, 32))
        THEN "ArrayIndexOutOfBounds"
        ELSE "none"

\* readHeader(buffer, offset) with offset 0, on the object h
readHeader(h, buf, order) ==
    LET magic == getInt(buf, order, 28)
        o == readHeaderOrder(buf, order)
        bitInfoWord == getInt(buf, o, 20)
        words == getInt(buf, o, 0)
        compressionWord == getInt(buf, o, 36)
        h1 == [h EXCEPT !.headerMagicWord = magic,
                        !.headerVersion = bitInfoWord % 256,
                        !.recordLengthWords = words,
                        !.recordLength = JavaTimes4(words),
                        !.recordLengthPadding = 0,
                        !.recordNumber = getInt(buf, o, 4),
                        !.headerLength = getInt(buf, o, 8),
                        !.entries = getInt(buf, o, 12)]
        h2 == setIndexLength(h1, getInt(buf, o, 16))
        h3 == setUserHeaderLength(h2, getInt(buf, o, 24))
        h4 == setDataLength(h3, getInt(buf, o, 32))
        h5 == [h4 EXCEPT !.compressionType = (compressionWord \div 268435456) % 16]
        h6 == setCompressedDataLength(h5, compressionWord % 268435456)
    IN  IF PaddingThrows(getInt(buf, o, 24)) THEN h3
        ELSE IF PaddingThrows(getInt(buf, o, 32)) THEN h4
        ELSE [h6 EXCEPT !.recordUserRegisterFirst = getLong(buf, o, 40),
                        !.recordUserRegisterSecond = getLong(buf, o, 48)]

\* ---- inputs
LengthSamples == {4, 10, 861}
NumberSamples == {1, 23}
HeaderLengthSamples == {14, 56}
CompressionTypes == {0, 1, 3, 15}
VersionSamples == {4, 6}
RegisterSamples == {<<0, 1234567>>, <<1, 2>>, <<-2, -1>>}

EmptyBuffer == [i \in 1..HEADER_SIZE_BYTES |-> 0]

HdrInitSelf ==
    /\ hdr \in {NewRecordHeader, NewRecordHeaderAt(0, 4, 1)}
    /\ hdrCalls = 0
    /\ hbuf = EmptyBuffer
    /\ hbufOrder = "BE"
    /\ hbufOrderOnEntry = "BE"
    /\ hdr2 = NewRecordHeader
    /\ hdrPhase = "build"
    /\ hdrThrown = "none"

\* No header is being handled
HdrIdle ==
    /\ hdr = <<>> /\ hdrCalls = 0 /\ hbuf = <<>> /\ hbufOrder = "BE"
    /\ hbufOrderOnEntry = "BE" /\ hdr2 = <<>> /\ hdrPhase = "none"
    /\ hdrThrown = "none"

HdrSetter(h) ==
    /\ hdrPhase = "build"
    /\ hdrCalls < MaxSetterCalls
    /\ hdr' = h
    /\ hdrCalls' = hdrCalls + 1
    /\ UNCHANGED <<hbuf, hbufOrder, hbufOrderOnEntry, hdr2, hdrPhase, hdrThrown>>
    /\ UNCHANGED notHdrVars

SetLength == \E v \in LengthSamples : HdrSetter(setLength(hdr, v))
SetDataLength == \E v \in LengthSamples : HdrSetter(setDataLength(hdr, v))
SetCompressedDataLength ==
    \E v \in LengthSamples : HdrSetter(setCompressedDataLength(hdr, v))
SetUserHeaderLength == \E v \in LengthSamples : HdrSetter(setUserHeaderLength(hdr, v))
SetIndexLength == \E v \in LengthSamples : HdrSetter(setIndexLength(hdr, v))
SetHeaderLength == \E v \in HeaderLengthSamples : HdrSetter(setHeaderLength(hdr, v))
SetRecordNumber == \E v \in NumberSamples : HdrSetter(setRecordNumber(hdr, v))
SetEntries == \E v \in NumberSamples : HdrSetter(setEntries(hdr, v))
SetCompressionType == \E v \in CompressionTypes : HdrSetter(setCompressionType(hdr, v))
SetVersion == \E v \in VersionSamples : HdrSetter(setVersion(hdr, v))
SetUserRegisterFirst ==
    \E v \in RegisterSamples : HdrSetter(setUserRegisterFirst(hdr, v))
SetUserRegisterSecond ==
    \E v \in RegisterSamples : HdrSetter(setUserRegisterSecond(hdr, v))

\* header.writeHeader(buffer) on a buffer of either byte order
WriteHeader ==
    /\ hdrPhase = "build"
    /\ \E order \in ByteOrders :
          /\ hbufOrder' = order
          /\ hbuf' = writeHeader(hdr, EmptyBuffer, order)
    /\ hdrPhase' = "written"
    /\ UNCHANGED <<hdr, hdrCalls, hbufOrderOnEntry, hdr2, hdrThrown>>
    /\ UNCHANGED notHdrVars

\* header2 = new RecordHeader(); header2.readHeader(buffer), the reader having
\* wrapped the bytes in a buffer of either byte order
ReadHeader ==
    /\ hdrPhase = "written"
    /\ \E order \in ByteOrders :
          /\ hbufOrderOnEntry' = order
          /\ hbufOrder' = readHeaderOrder(hbuf, order)
          /\ hdr2' = readHeader(NewRecordHeader, hbuf, order)
          /\ hdrThrown' = readHeaderThrows(hbuf, order)
    /\ hdrPhase' = "read"
    /\ UNCHANGED <<hdr, hdrCalls, hbuf>>
    /\ UNCHANGED notHdrVars

\* ---- evioSwapRecordHeaderV6 (src/unnamed/part_004), on the bytes of the
\* ---- header in memory
EV_HDSIZ_V6 == HEADER_SIZE_WORDS

\* the four bytes of header[i] in memory order
HeaderWordAt(header, i) == SubSeq(header, 4 * i + 1, 4 * i + 4)

\* header[a] and header[a + 1] change places
ExchangeWords_none(words, a) == words

ExchangeWords(words, a) ==
    [i \in DOMAIN words |-> IF i = a THEN words[a + 1]
                            ELSE IF i = a + 1 THEN words[a]
                            ELSE words[i]]

\* swap_int32_t(header, EV_HDSIZ_V6, NULL) reverses the bytes of every word,
\* whatever the byte order of the host; then the words of each user
\* register change places
evioSwapRecordHeaderV6(header) ==
    LET swapped == [i \in 0..(EV_HDSIZ_V6 - 1) |-> Reverse(HeaderWordAt(header, i))]
        exchanged == ExchangeWords(ExchangeWords(swapped, 10), 12)
    IN  [k \in 1..Len(header) |->
            IF k <= 4 * EV_HDSIZ_V6
            THEN exchanged[(k - 1) \div 4][((k - 1) % 4) + 1]
            ELSE header[k]]

\* evioSwapRecordHeaderV6(buffer) on the header just written, once and then
\* once more
SwapRecordHeader ==
    /\ hdrPhase \in {"written", "swapped"}
    /\ hbuf' = evioSwapRecordHeaderV6(hbuf)
    /\ hdrPhase' = (IF hdrPhase = "written" THEN "swapped" ELSE "restored")
    /\ UNCHANGED <<hdr, hdrCalls, hbufOrder, hbufOrderOnEntry, hdr2, hdrThrown>>
    /\ UNCHANGED notHdrVars

\* header.reset(), to build the next header
ResetHeader ==
    /\ hdrPhase = "read"
    /\ hdr # reset(hdr)
    /\ hdr' = reset(hdr)
    /\ hdrCalls' = 0
    /\ hbuf' = EmptyBuffer
    /\ hdr2' = NewRecordHeader
    /\ hbufOrder' = "BE"
    /\ hbufOrderOnEntry' = "BE"
    /\ hdrThrown' = "none"
    /\ hdrPhase' = "build"
    /\ UNCHANGED notHdrVars

HdrNext ==
    \/ SetLength
    \/ SetDataLength
    \/ SetCompressedDataLength
    \/ SetUserHeaderLength
    \/ SetIndexLength
    \/ SetHeaderLength
    \/ SetRecordNumber
    \/ SetEntries
    \/ SetCompressionType
    \/ SetVersion
    \/ SetUserRegisterFirst
    \/ SetUserRegisterSecond
    \/ WriteHeader
    \/ ReadHeader
    \/ SwapRecordHeader
    \/ ResetHeader

(***************************************************************************)
(* Ring-based multi-thread writer                                          *)
(***************************************************************************)
RECURSIVE Pow2(_)
Pow2(p) == IF p = 0 THEN 1 ELSE 2 * Pow2(p - 1)

RingSizes == { Pow2(p) : p \in 1..MaxRingPow }

\* the most sequences the producer can ever claim: one record per event
\* plus the slot it holds at close
MaxSequences == MaxEvents + 1

Slot(seq) == seq % ringSize

Trailer == [kind |-> "trailer"]

Compressors == 0..(compThreads - 1)

\* The party that holds a sequence; worker is the compressor's number
Party(p) == [party |-> p, worker |-> -1]
Worker(k) == [party |-> "compressor", worker |-> k]

\* Producer gate: slot i may be claimed only once the writer has released
\* the sequence that used the same slot one lap earlier.
ProducerGate_late(i) == i - ringSize <= writerSequence
ProducerGate(i) == i - ringSize < writerSequence

\* Compressor gate: worker k may start on sequence i only when the producer
\* has published it; i is always a sequence of k's stride.
CompressorGate(k, i) == i <= publishedSequence

\* The stride of worker k: k, k + N, k + 2N, ...
CompressorStride_one(k, i) == i + 1
CompressorStride(k, i) == i + compThreads

\* Writer gate: sequence i may be consumed only when its compressor,
\* worker i mod N, has marked it done.
WriterGate_min(i) == \A k \in Compressors : compSequence[k] >= i
WriterGate_published(i) == i <= publishedSequence
WriterGate(i) == compSequence[i % compThreads] >= i

\* close() waits until the writer has drained up to the marker
WriterDrained_nowait == TRUE
WriterDrained == writerSequence > markerSequence

RingInitSelf ==
    /\ ringSize \in RingSizes
    /\ compThreads \in 1..MaxCompThreads
    /\ compThreads < ringSize
    /\ maxEventCount \in 1..MaxEventCount
    /\ slotEvents = [s \in 0..(ringSize - 1) |-> <<>>]
    /\ slotBuilt = [s \in 0..(ringSize - 1) |-> FALSE]
    /\ nextSequence = 0
    /\ publishedSequence = -1
    /\ compSequence = [k \in Compressors |-> -1]
    /\ writerSequence = 0
    /\ prodHold = -1
    /\ inAddEvent = FALSE
    /\ numEvents = 0
    /\ compNext = [k \in Compressors |-> k]
    /\ compHold = [k \in Compressors |-> -1]
    /\ compAlive = [k \in Compressors |-> TRUE]
    /\ writerHold = -1
    /\ writerAlive = TRUE
    /\ closeState = "open"
    /\ markerSequence = -1
    /\ stopRequested = FALSE
    /\ file = <<>>
    /\ stage = [i \in 0..(MaxSequences - 1) |-> Party("unclaimed")]
    /\ overtaken = FALSE

\* No ring writer exists
RingIdle ==
    /\ ringSize = 0 /\ compThreads = 0 /\ maxEventCount = 0
    /\ slotEvents = <<>> /\ slotBuilt = <<>>
    /\ nextSequence = 0 /\ publishedSequence = -1
    /\ compSequence = <<>> /\ writerSequence = 0
    /\ prodHold = -1 /\ inAddEvent = FALSE /\ numEvents = 0
    /\ compNext = <<>> /\ compHold = <<>> /\ compAlive = <<>>
    /\ writerHold = -1 /\ writerAlive = FALSE
    /\ closeState = "none" /\ markerSequence = -1 /\ stopRequested = FALSE
    /\ file = <<>> /\ stage = <<>> /\ overtaken = FALSE

\* The producer claims the next slot (it suspends here while the ring is
\* full).  When the claim completes an addEvent that found its record full,
\* the event goes into the new slot.
ProducerClaim ==
    /\ closeState = "open"
    /\ prodHold = -1
    /\ ProducerGate(nextSequence)
    /\ prodHold' = nextSequence
    /\ nextSequence' = nextSequence + 1
    /\ stage' = [stage EXCEPT ![nextSequence] = Party("producer")]
    /\ IF inAddEvent
       THEN /\ slotEvents' = [slotEvents EXCEPT ![Slot(nextSequence)] = <<numEvents>>]
            /\ numEvents' = numEvents + 1
       ELSE /\ slotEvents' = [slotEvents EXCEPT ![Slot(nextSequence)] = <<>>]
            /\ UNCHANGED numEvents
    /\ inAddEvent' = FALSE
    /\ UNCHANGED <<ringConfig, slotBuilt, publishedSequence, compSequence,
                   writerSequence, compNext, compHold, compAlive, writerHold,
                   writerAlive, closeState, markerSequence, stopRequested,
                   file, overtaken>>
    /\ UNCHANGED notRingVars

\* addEvent: the record of the current slot accepts the event
AddEvent ==
    /\ closeState = "open"
    /\ prodHold # -1
    /\ numEvents < MaxEvents
    /\ Len(slotEvents[Slot(prodHold)]) < maxEventCount
    /\ slotEvents' = [slotEvents EXCEPT ![Slot(prodHold)] = Append(@, numEvents)]
    /\ numEvents' = numEvents + 1
    /\ UNCHANGED <<ringConfig, slotBuilt, nextSequence, publishedSequence,
                   compSequence, writerSequence, prodHold, inAddEvent, compNext,
                   compHold, compAlive, writerHold, writerAlive, closeState,
                   markerSequence, stopRequested, file, stage, overtaken>>
    /\ UNCHANGED notRingVars

\* addEvent: the record is full, so the slot is published and the producer
\* goes on to claim the next one
AddEventPublish ==
    /\ closeState = "open"
    /\ prodHold # -1
    /\ numEvents < MaxEvents
    /\ Len(slotEvents[Slot(prodHold)]) >= maxEventCount
    /\ publishedSequence' = prodHold
    /\ stage' = [stage EXCEPT ![prodHold] = Party("published")]
    /\ prodHold' = -1
    /\ inAddEvent' = TRUE
    /\ UNCHANGED <<ringConfig, slotEvents, slotBuilt, nextSequence,
                   compSequence, writerSequence, numEvents, compNext, compHold,
                   compAlive, writerHold, writerAlive, closeState,
                   markerSequence, stopRequested, file, overtaken>>
    /\ UNCHANGED notRingVars

\* Compressor k takes the next sequence of its stride
CompressorStart(k) ==
    /\ compAlive[k]
    /\ compHold[k] = -1
    /\ compNext[k] < MaxSequences
    /\ CompressorGate(k, compNext[k])
    /\ compHold' = [compHold EXCEPT ![k] = compNext[k]]
    /\ stage' = [stage EXCEPT ![compNext[k]] = Worker(k)]
    /\ UNCHANGED <<ringConfig, slotEvents, slotBuilt, nextSequence,
                   publishedSequence, compSequence, writerSequence, prodHold,
                   inAddEvent, numEvents, compNext, compAlive, writerHold,
                   writerAlive, closeState, markerSequence, stopRequested,
                   file, overtaken>>
    /\ UNCHANGED notRingVars

\* Compressor k runs record.build() and marks the sequence done
CompressorDone(k) ==
    /\ compHold[k] # -1
    /\ slotBuilt' = [slotBuilt EXCEPT ![Slot(compHold[k])] = TRUE]
    /\ compSequence' = [compSequence EXCEPT ![k] = compHold[k]]
    /\ compNext' = [compNext EXCEPT ![k] = CompressorStride(k, compHold[k])]
    /\ compHold' = [compHold EXCEPT ![k] = -1]
    /\ stage' = [stage EXCEPT ![compHold[k]] = Party("done")]
    /\ overtaken' = (overtaken \/ \E j \in 0..(compHold[k] - 1) :
                                     stage[j].party \in {"published", "compressor"})
    /\ UNCHANGED <<ringConfig, slotEvents, nextSequence, publishedSequence,
                   writerSequence, prodHold, inAddEvent, numEvents, compAlive,
                   writerHold, writerAlive, closeState, markerSequence,
                   stopRequested, file>>
    /\ UNCHANGED notRingVars

\* An idle compressor stops when close() asks it to
CompressorStop(k) ==
    /\ compAlive[k]
    /\ compHold[k] = -1
    /\ stopRequested
    /\ compAlive' = [compAlive EXCEPT ![k] = FALSE]
    /\ UNCHANGED <<ringConfig, slotEvents, slotBuilt, nextSequence,
                   publishedSequence, compSequence, writerSequence, prodHold,
                   inAddEvent, numEvents, compNext, compHold, writerHold,
                   writerAlive, closeState, markerSequence, stopRequested,
                   file, stage, overtaken>>
    /\ UNCHANGED notRingVars

\* The writer takes the next sequence in submission order
WriterTake ==
    /\ writerAlive
    /\ writerHold = -1
    /\ writerSequence < MaxSequences
    /\ WriterGate(writerSequence)
    /\ writerHold' = writerSequence
    /\ stage' = [stage EXCEPT ![writerSequence] = Party("writer")]
    /\ UNCHANGED <<ringConfig, slotEvents, slotBuilt, nextSequence,
                   publishedSequence, compSequence, writerSequence, prodHold,
                   inAddEvent, numEvents, compNext, compHold, compAlive,
                   writerAlive, closeState, markerSequence, stopRequested,
                   file, overtaken>>
    /\ UNCHANGED notRingVars

\* The bytes the writer puts on disk for the record of a slot
RecordBytes(seq) ==
    [kind |-> "record",
     recordNumber |-> seq + 1,
     events |-> slotEvents[Slot(seq)],
     built |-> slotBuilt[Slot(seq)]]

\* The writer writes the slot's bytes (an empty record is not written),
\* resets the slot and releases it to the producer
WriterWrite ==
    /\ writerHold # -1
    /\ file' = IF slotEvents[Slot(writerHold)] = <<>>
               THEN file
               ELSE Append(file, RecordBytes(writerHold))
    /\ slotEvents' = [slotEvents EXCEPT ![Slot(writerHold)] = <<>>]
    /\ slotBuilt' = [slotBuilt EXCEPT ![Slot(writerHold)] = FALSE]
    /\ writerSequence' = writerHold + 1
    /\ writerHold' = -1
    /\ stage' = [stage EXCEPT ![writerHold] = Party("released")]
    /\ UNCHANGED <<ringConfig, nextSequence, publishedSequence, compSequence,
                   prodHold, inAddEvent, numEvents, compNext, compHold,
                   compAlive, writerAlive, closeState, markerSequence,
                   stopRequested, overtaken>>
    /\ UNCHANGED notRingVars

\* The idle writer stops when close() asks it to
WriterStop ==
    /\ writerAlive
    /\ writerHold = -1
    /\ stopRequested
    /\ writerAlive' = FALSE
    /\ UNCHANGED <<ringConfig, slotEvents, slotBuilt, nextSequence,
                   publishedSequence, compSequence, writerSequence, prodHold,
                   inAddEvent, numEvents, compNext, compHold, compAlive,
                   writerHold, closeState, markerSequence, stopRequested,
                   file, stage, overtaken>>
    /\ UNCHANGED notRingVars

\* close(): publish the current slot as the end-of-stream marker
CloseBegin ==
    /\ closeState = "open"
    /\ prodHold # -1
    /\ markerSequence' = prodHold
    /\ publishedSequence' = prodHold
    /\ stage' = [stage EXCEPT ![prodHold] = Party("published")]
    /\ prodHold' = -1
    /\ closeState' = "draining"
    /\ UNCHANGED <<ringConfig, slotEvents, slotBuilt, nextSequence,
                   compSequence, writerSequence, inAddEvent, numEvents,
                   compNext, compHold, compAlive, writerHold, writerAlive,
                   stopRequested, file, overtaken>>
    /\ UNCHANGED notRingVars

\* close(): the writer has drained to the marker; ask the workers to stop
CloseDrained ==
    /\ closeState = "draining"
    /\ WriterDrained
    /\ stopRequested' = TRUE
    /\ closeState' = "joining"
    /\ UNCHANGED <<ringConfig, slotEvents, slotBuilt, nextSequence,
                   publishedSequence, compSequence, writerSequence, prodHold,
                   inAddEvent, numEvents, compNext, compHold, compAlive,
                   writerHold, writerAlive, markerSequence, file, stage,
                   overtaken>>
    /\ UNCHANGED notRingVars

WorkersJoined ==
    /\ \A k \in Compressors : ~compAlive[k]
    /\ ~writerAlive

\* close(): all workers are joined; write the trailer
CloseTrailer ==
    /\ closeState = "joining"
    /\ WorkersJoined
    /\ file' = Append(file, Trailer)
    /\ closeState' = "closed"
    /\ UNCHANGED <<ringConfig, slotEvents, slotBuilt, nextSequence,
                   publishedSequence, compSequence, writerSequence, prodHold,
                   inAddEvent, numEvents, compNext, compHold, compAlive,
                   writerHold, writerAlive, markerSequence, stopRequested,
                   stage, overtaken>>
    /\ UNCHANGED notRingVars

CompressorStep(k) == CompressorStart(k) \/ CompressorDone(k) \/ CompressorStop(k)
WriterStep == WriterTake \/ WriterWrite \/ WriterStop

RingNext ==
    \/ ProducerClaim
    \/ AddEvent
    \/ AddEventPublish
    \/ \E k \in Compressors : CompressorStart(k)
    \/ \E k \in Compressors : CompressorDone(k)
    \/ \E k \in Compressors : CompressorStop(k)
    \/ WriterTake
    \/ WriterWrite
    \/ WriterStop
    \/ CloseBegin
    \/ CloseDrained
    \/ CloseTrailer

(***************************************************************************)
(* File writer and file reader: the file a Writer produces (layout of      *)
(* records, user header, trailer and index) and Reader.cpp opening it.     *)
(***************************************************************************)
\* a position no file reaches; positions and counts beyond it compare alike
FarPosition == 512 * 1024 * 1024

Clamp(x) ==
    IF x > FarPosition THEN FarPosition
    ELSE IF x < 0 - FarPosition THEN 0 - FarPosition ELSE x

SatAdd(a, b) == Clamp(Clamp(a) + Clamp(b))

\* an int converted to an unsigned position: a negative int is far away
AsPosition(x) == IF x < 0 THEN FarPosition ELSE Clamp(x)

\* the bytes of a sequence of 32-bit words in a byte order
WordsBytes(ws, order) ==
    [j \in 1..(4 * Len(ws)) |->
        LET b == IntBytes(ws[((j - 1) \div 4) + 1])
            k == ((j - 1) % 4) + 1
        IN  IF order = "BE" THEN b[k] ELSE b[5 - k]]

\* ---- the events: event i is a bank of two or three words whose second
\* word carries i
EventWords(i) == IF i % 2 = 1 THEN <<1, 256 * i + 1>> ELSE <<2, 256 * i + 1, i>>
EventBytes(i, order) == WordsBytes(EventWords(i), order)
EventLength(i) == 4 * Len(EventWords(i))

RECURSIVE EventsBytes(_, _)
EventsBytes(ids, order) ==
    IF ids = <<>> THEN <<>>
    ELSE EventBytes(Head(ids), order) \o EventsBytes(Tail(ids), order)

RECURSIVE EventsLength(_)
EventsLength(ids) ==
    IF ids = <<>> THEN 0 ELSE EventLength(Head(ids)) + EventsLength(Tail(ids))

\* ---- writer side
\* bit 9 of the bit-info word: the record is the last one (trailer)
LAST_RECORD_BIT == 512
\* bit 10 of a file header's bit-info word: the trailer carries an index
TRAILER_WITH_INDEX_BIT == 1024
\* byte offset of the trailer position in the file header (words 10-11)
TRAILER_POSITION_OFFSET == 40

UserHeaderLengths == {0, 8, 10}

\* the user header's bytes followed by zero padding to a multiple of 4
UserHeaderBytes(len) ==
    [j \in 1..(len + getPadding(len)) |-> IF j <= len THEN 160 + j ELSE 0]

\* the file header: header length, user header length and total length are
\* set at open; the trailer position and the index bit are set at close
FileHeaderBytes(order, userLen, trailerPosition, withIndex) ==
    LET h0 == setHeaderLength(NewRecordHeader, HEADER_SIZE_BYTES)
        h1 == setUserHeaderLength(h0, userLen)
        h2 == setLength(h1, HEADER_SIZE_BYTES + userLen + getPadding(userLen))
        b0 == writeHeader(h2, EmptyBuffer, order)
        b1 == putInt(b0, order, 20,
                     getBitInfoWord(h2) + (IF withIndex THEN TRAILER_WITH_INDEX_BIT ELSE 0))
    IN  putLong(b1, order, TRAILER_POSITION_OFFSET, <<0, trailerPosition>>)

\* the length in bytes of a record of the events ids
FileRecordLength(ids) == HEADER_SIZE_BYTES + 4 * Len(ids) + EventsLength(ids)

\* header || index || payload of one uncompressed record
FileRecordBytes(order, number, ids) ==
    LET h0 == setHeaderLength(setRecordNumber(NewRecordHeader, number), HEADER_SIZE_BYTES)
        h1 == setIndexLength(setEntries(h0, Len(ids)), 4 * Len(ids))
        h2 == setDataLength(h1, EventsLength(ids))
        h3 == setLength(h2, FileRecordLength(ids))
    IN  writeHeader(h3, EmptyBuffer, order)
        \o WordsBytes([k \in 1..Len(ids) |-> EventLength(ids[k])], order)
        \o EventsBytes(ids, order)

\* the index of the trailer: (length, event count) of every record
TrailerIndexWords(index) ==
    [j \in 1..(2 * Len(index)) |-> index[(j + 1) \div 2][2 - (j % 2)]]

\* the trailer: a record header with no entries, followed by the index of
\* all records when the writer was told to add it
TrailerBytes(order, number, index, withIndex) ==
    LET words == IF withIndex THEN TrailerIndexWords(index) ELSE <<>>
        h0 == setHeaderLength(setRecordNumber(NewRecordHeader, number), HEADER_SIZE_BYTES)
        h1 == setIndexLength(h0, 4 * Len(words))
        h2 == setLength(h1, HEADER_SIZE_BYTES + 4 * Len(words))
        b0 == writeHeader(h2, EmptyBuffer, order)
        b1 == putInt(b0, order, 20, getBitInfoWord(h2) + LAST_RECORD_BIT)
    IN  b1 \o WordsBytes(words, order)

\* ---- reader side (Reader.cpp)
\* the most records a scan visits before it is taken not to end
MaxScanRecords == 6

\* inStreamRandom.read(headerBytes) at a position: the bytes of the file from
\* there, the array keeping what it held where the file has ended
ReadAt(bytes, pos, old) ==
    [j \in 1..Len(old) |-> IF pos + j <= Len(bytes) THEN bytes[pos + j] ELSE old[j]]

\* FileHeader accessors on the 56 header bytes
hasTrailerWithIndex(hb, order) ==
    (getInt(hb, order, 20) \div TRAILER_WITH_INDEX_BIT) % 2 = 1

getTrailerPosition(hb, order) ==
    LET l == getLong(hb, order, TRAILER_POSITION_OFFSET)
    IN  IF l[1] < 0 THEN -1
        ELSE IF l[1] > 0 \/ l[2] < 0 THEN FarPosition ELSE Clamp(l[2])

\* what a reader that did not come to life holds
ReaderFailed(why) ==
    [status |-> why, byteOrder |-> "BE", evioVersion |-> 0, recordPositions |-> <<>>,
     firstRecordPosition |-> -1]

\* recordPosition += recordLen, on an unsigned position
NextRecordPosition(pos, recordLen) == AsPosition(SatAdd(pos, recordLen))

\* uint64_t maximumSize = fileSize - HEADER_SIZE_BYTES: the difference of
\* unsigned values, far away for a file shorter than one header
maximumSize(fileSize) ==
    IF fileSize < HEADER_SIZE_BYTES THEN FarPosition ELSE fileSize - HEADER_SIZE_BYTES

\* the while loop of forceScanFile from a record position on: one header is
\* read per turn, its position, length and entry count are stored, and the
\* position moves on by the length read
RECURSIVE forceScanLoop(_, _, _, _, _, _)
forceScanLoop(bytes, pos, hb, order, found, turns) ==
    IF ~(pos < maximumSize(Len(bytes)))
    THEN [status |-> "ok", recordPositions |-> found]
    ELSE IF turns = 0
    THEN [status |-> "hangs", recordPositions |-> found]
    ELSE LET headerBytes == ReadAt(bytes, pos, hb)
             thrown == readHeaderThrows(headerBytes, order)
             recordHeader == readHeader(NewRecordHeader, headerBytes, order)
             recordLen == recordHeader.recordLength
         IN  IF thrown # "none"
             THEN [status |-> thrown, recordPositions |-> found]
             ELSE forceScanLoop(bytes, NextRecordPosition(pos, recordLen),
                                headerBytes, readHeaderOrder(headerBytes, order),
                                Append(found, [position |-> pos,
                                               length |-> recordLen,
                                               count |-> recordHeader.entries]),
                                turns - 1)

\* the first record position forceScanFile starts from
forceScanFirstPosition(fileHeader) ==
    AsPosition(SatAdd(SatAdd(fileHeader.headerLength, fileHeader.userHeaderLength),
                      fileHeader.indexLength))

\* forceScanFile(), the file header read by a buffer of the given order
forceScanFile(bytes, order) ==
    LET headerBytes == ReadAt(bytes, 0, EmptyBuffer)
        thrown == readHeaderThrows(headerBytes, order)
        fileHeader == readHeader(NewRecordHeader, headerBytes, order)
        byteOrder == readHeaderOrder(headerBytes, order)
        scan == forceScanLoop(bytes, forceScanFirstPosition(fileHeader),
                              headerBytes, byteOrder, <<>>, MaxScanRecords)
    IN  IF thrown # "none" THEN ReaderFailed(thrown)
        ELSE [status |-> scan.status, byteOrder |-> byteOrder,
              evioVersion |-> fileHeader.headerVersion,
              recordPositions |-> scan.recordPositions,
              firstRecordPosition |-> forceScanFirstPosition(fileHeader)]

\* the loop of scanFile over the (length, count) pairs of the index
RECURSIVE indexPositions(_, _, _)
indexPositions(intData, i, recordPosition) ==
    IF i + 1 > Len(intData) THEN <<>>
    ELSE <<[position |-> recordPosition, length |-> intData[i],
            count |-> intData[i + 1]]>>
         \o indexPositions(intData, i + 2,
                           AsPosition(SatAdd(recordPosition, intData[i])))

\* ByteDataTransformer.toIntArray on the index bytes read after a position
indexIntArray(bytes, pos, indexLength, order) ==
    LET avail == IF pos >= Len(bytes) THEN 0 ELSE Len(bytes) - pos
        n == (IF indexLength < avail THEN indexLength ELSE avail) \div 4
    IN  [j \in 1..n |-> getInt(bytes, order, pos + 4 * (j - 1))]

\* scanFile(force)
scanFile(bytes, force, order) ==
    LET headerBytes == ReadAt(bytes, 0, EmptyBuffer)
        thrown == readHeaderThrows(headerBytes, order)
        fileHeader == readHeader(NewRecordHeader, headerBytes, order)
        byteOrder == readHeaderOrder(headerBytes, order)
        fileHasIndex == hasTrailerWithIndex(headerBytes, byteOrder)
                            \/ fileHeader.indexLength > 0
        trailerPosition == getTrailerPosition(headerBytes, byteOrder)
        useTrailer == hasTrailerWithIndex(headerBytes, byteOrder)
                          /\ ~(trailerPosition < 1)
        recordPosition == AsPosition(fileHeader.recordLength)
        firstBytes == ReadAt(bytes, recordPosition, headerBytes)
        firstThrown == readHeaderThrows(firstBytes, byteOrder)
        orderAfterFirst == readHeaderOrder(firstBytes, byteOrder)
        trailerBytes == ReadAt(bytes, trailerPosition, firstBytes)
        trailerThrown == readHeaderThrows(trailerBytes, orderAfterFirst)
        trailer == readHeader(NewRecordHeader, trailerBytes, orderAfterFirst)
        indexLength == IF useTrailer THEN trailer.indexLength
                       ELSE fileHeader.indexLength
        indexAt == IF useTrailer
                   THEN SatAdd(trailerPosition, HEADER_SIZE_BYTES)
                   ELSE AsPosition(fileHeader.headerLength)
        intData == indexIntArray(bytes, indexAt, indexLength, byteOrder)
    IN  IF force THEN forceScanFile(bytes, order)
        ELSE IF thrown # "none" THEN ReaderFailed(thrown)
        ELSE IF ~fileHasIndex THEN forceScanFile(bytes, order)
        ELSE IF hasTrailerWithIndex(headerBytes, byteOrder) /\ trailerPosition < 1
                /\ ~(fileHeader.indexLength > 0)
        THEN forceScanFile(bytes, order)
        ELSE IF firstThrown # "none" THEN ReaderFailed(firstThrown)
        ELSE IF useTrailer /\ trailerThrown # "none" THEN ReaderFailed(trailerThrown)
        ELSE IF indexLength < 0 THEN ReaderFailed("bad_alloc")
        ELSE [status |-> "ok", byteOrder |-> byteOrder,
              evioVersion |-> fileHeader.headerVersion,
              recordPositions |-> indexPositions(intData, 1, recordPosition),
              firstRecordPosition |-> recordPosition]

\* FileEventIndex: getMaxEvents() is the sum of the event counts added
RECURSIVE getMaxEvents(_)
getMaxEvents(recordPositions) ==
    IF recordPositions = <<>> THEN 0
    ELSE SatAdd(Head(recordPositions).count, getMaxEvents(Tail(recordPositions)))

\* FileEventIndex.setEvent(index): <<record number, event number in record>>
\* of an event ordinal, <<-1, -1>> when no record holds it
RECURSIVE setEvent(_, _, _)
setEvent(recordPositions, r, index) ==
    IF r > Len(recordPositions) THEN <<-1, -1>>
    ELSE IF index < recordPositions[r].count THEN <<r - 1, index>>
    ELSE setEvent(recordPositions, r + 1, SatAdd(index, 0 - recordPositions[r].count))

\* the sum of the first k entries of the event index array at a position
RECURSIVE indexOffset(_, _, _, _)
indexOffset(bytes, order, at, k) ==
    IF k = 0 THEN 0
    ELSE SatAdd(getInt(bytes, order, at + 4 * (k - 1)),
                indexOffset(bytes, order, at, k - 1))

\* an event that was not returned, and why
NoEvent(why) == [result |-> why, bytes |-> <<>>]

\* RecordInput: readRecord at a position followed by getEvent(k), on an
\* uncompressed record
recordInputEvent(bytes, pos, k, order) ==
    LET headerBytes == ReadAt(bytes, pos, EmptyBuffer)
        header == readHeader(NewRecordHeader, headerBytes, order)
        o == readHeaderOrder(headerBytes, order)
        indexAt == SatAdd(pos, AsPosition(header.headerLength))
        dataAt == SatAdd(SatAdd(indexAt, AsPosition(header.indexLength)),
                         AsPosition(SatAdd(header.userHeaderLength,
                                           header.userHeaderLengthPadding)))
        indexEnd == SatAdd(indexAt, 4 * (k + 1))
    IN  IF pos + HEADER_SIZE_BYTES > Len(bytes) THEN NoEvent("Truncated")
        ELSE IF readHeaderThrows(headerBytes, order) # "none"
        THEN NoEvent(readHeaderThrows(headerBytes, order))
        ELSE IF k < 0 \/ k >= header.entries THEN NoEvent("null")
        ELSE IF indexEnd > Len(bytes) THEN NoEvent("Truncated")
        ELSE LET start == SatAdd(dataAt, indexOffset(bytes, o, indexAt, k))
                 length == getInt(bytes, o, indexAt + 4 * k)
             IN  IF length < 0 \/ start < 0 \/ SatAdd(start, length) > Len(bytes)
                 THEN NoEvent("Truncated")
                 ELSE [result |-> "event",
                       bytes |-> SubSeq(bytes, start + 1, start + length)]

\* Reader::getEventCount()
getEventCount(reader) == getMaxEvents(reader.recordPositions)

\* Reader::getEvent(index)
getEvent(reader, bytes, index) ==
    LET at == setEvent(reader.recordPositions, 1, index)
    IN  IF index < 0 \/ index >= getMaxEvents(reader.recordPositions)
        THEN NoEvent("null")
        ELSE IF at[1] < 0 THEN NoEvent("null")
        ELSE recordInputEvent(bytes, reader.recordPositions[at[1] + 1].position,
                              at[2], reader.byteOrder)

\* ---- the writer and the reader as a state machine
\* events written to one file
MaxFileEvents == 3

NoReader == ReaderFailed("none")
NothingGot == [index |-> -2, event |-> NoEvent("none")]

FileInitSelf ==
    /\ \E order \in ByteOrders, userLen \in UserHeaderLengths,
          limit \in 1..MaxEventCount, withIndex \in BOOLEAN :
          /\ fw = [order |-> order, userHeaderLength |-> userLen,
                   maxEventCount |-> limit, addTrailerIndex |-> withIndex,
                   state |-> "open", added |-> 0, record |-> <<>>, index |-> <<>>]
          /\ fbytes = FileHeaderBytes(order, userLen, 0, FALSE)
                          \o UserHeaderBytes(userLen)
    /\ rd = NoReader
    /\ rdGot = NothingGot

\* No file is being written or read
FileIdle == fw = <<>> /\ fbytes = <<>> /\ rd = <<>> /\ rdGot = <<>>

\* the record under construction goes to the file
FlushedBytes ==
    IF fw.record = <<>> THEN fbytes
    ELSE fbytes \o FileRecordBytes(fw.order, Len(fw.index) + 1, fw.record)

FlushedIndex ==
    IF fw.record = <<>> THEN fw.index
    ELSE Append(fw.index, <<FileRecordLength(fw.record), Len(fw.record)>>)

\* writer.addEvent(event): a record that has reached its event limit is
\* written out and the event starts the next record
FileAddEvent ==
    /\ fw.state = "open"
    /\ fw.added < MaxFileEvents
    /\ LET full == Len(fw.record) >= fw.maxEventCount
       IN  /\ fbytes' = IF full THEN FlushedBytes ELSE fbytes
           /\ fw' = [fw EXCEPT !.added = @ + 1,
                               !.record = IF full THEN <<fw.added + 1>>
                                          ELSE Append(@, fw.added + 1),
                               !.index = IF full THEN FlushedIndex ELSE @]
    /\ UNCHANGED <<rd, rdGot>>
    /\ UNCHANGED notFileVars

\* writer.close(): the last record is written, then the trailer, and the
\* file header is rewritten with the trailer's position
FileClose ==
    /\ fw.state = "open"
    /\ fbytes' = FileHeaderBytes(fw.order, fw.userHeaderLength,
                                 Len(FlushedBytes), fw.addTrailerIndex)
                 \o SubSeq(FlushedBytes, HEADER_SIZE_BYTES + 1, Len(FlushedBytes))
                 \o TrailerBytes(fw.order, Len(FlushedIndex) + 1, FlushedIndex,
                                 fw.addTrailerIndex)
    /\ fw' = [fw EXCEPT !.state = "closed", !.record = <<>>, !.index = FlushedIndex]
    /\ UNCHANGED <<rd, rdGot>>
    /\ UNCHANGED notFileVars

\* Reader reader(filename) and Reader reader(filename, forceScan): the header
\* buffer the reader allocates has either byte order; the arguments of the
\* call are kept with the reader
ReaderOpen ==
    /\ fw.state = "closed"
    /\ rd.status = "none"
    /\ \E forceScan \in BOOLEAN, order \in ByteOrders :
          rd' = scanFile(fbytes, forceScan, order)
                  @@ [forceScan |-> forceScan, headerOrder |-> order]
    /\ UNCHANGED <<fw, fbytes, rdGot>>
    /\ UNCHANGED notFileVars

\* reader.getEvent(index)
ReaderGetEvent ==
    /\ rd.status = "ok"
    /\ \E index \in -1..MaxFileEvents :
          rdGot' = [index |-> index, event |-> getEvent(rd, fbytes, index)]
    /\ UNCHANGED <<fw, fbytes, rd>>
    /\ UNCHANGED notFileVars

FileNext ==
    \/ FileAddEvent
    \/ FileClose
    \/ ReaderOpen
    \/ ReaderGetEvent

(***************************************************************************)
(* Splitting writer: files are cut by size between two record writes.      *)
(***************************************************************************)
\* events written by one splitting writer
MaxSplitEvents == 5

\* split sizes in bytes, 0 for no splitting
SplitSizes == {0, 100, 230}
\* payload bytes of an event
SplitEventSizes == {8, 36}

\* what a file is made of
FileHeaderItem == [kind |-> "fileHeader", id |-> 0, entries |-> 0, bytes |-> HEADER_SIZE_BYTES]
TrailerItem == [kind |-> "trailer", id |-> 0, entries |-> 0, bytes |-> HEADER_SIZE_BYTES]
RecordHeaderItem(n) ==
    [kind |-> "recordHeader", id |-> 0, entries |-> n, bytes |-> HEADER_SIZE_BYTES + 4 * n]
EventItem(e) == [kind |-> "event", id |-> e.id, entries |-> 0, bytes |-> e.bytes]

\* the items of one record: its header and its events
RecordItems(events) ==
    <<RecordHeaderItem(Len(events))>> \o [k \in 1..Len(events) |-> EventItem(events[k])]

RECURSIVE ItemsBytes(_)
ItemsBytes(items) ==
    IF items = <<>> THEN 0 ELSE Head(items).bytes + ItemsBytes(Tail(items))

\* records written to a file so far
RecordsIn(items) == Cardinality({k \in 1..Len(items) : items[k].kind = "recordHeader"})

\* the file boundary: the current file gets its trailer and is closed, the
\* next file is opened and starts with a file header
SplitRotate_headerless(files) ==
    Append([files EXCEPT ![Len(files)] = Append(@, TrailerItem)], <<>>)
SplitRotate(files) ==
    Append([files EXCEPT ![Len(files)] = Append(@, TrailerItem)], <<FileHeaderItem>>)

\* the writer's split decision before it writes a record: the file holds a
\* record already and the record would take it past the split size
SplitDue(splitSize, items, events) ==
    /\ splitSize > 0
    /\ RecordsIn(items) > 0
    /\ ItemsBytes(items) + ItemsBytes(RecordItems(events)) > splitSize

\* one record write, with the file boundary before it when it is due
SplitWriteRecord(splitSize, files, events) ==
    LET target == IF SplitDue(splitSize, files[Len(files)], events)
                  THEN SplitRotate(files) ELSE files
    IN  [target EXCEPT ![Len(target)] = @ \o RecordItems(events)]

SplitInitSelf ==
    /\ \E size \in SplitSizes, limit \in 1..MaxEventCount :
          sp = [splitSize |-> size, maxEventCount |-> limit, state |-> "open",
                added |-> 0, record |-> <<>>]
    /\ spFiles = <<<<FileHeaderItem>>>>

\* No splitting writer exists
SplitIdle == sp = <<>> /\ spFiles = <<>>

\* evWrite / addEvent: a full record is written out first
SplitAddEvent ==
    /\ sp.state = "open"
    /\ sp.added < MaxSplitEvents
    /\ \E size \in SplitEventSizes :
          LET event == [id |-> sp.added + 1, bytes |-> size]
              full == Len(sp.record) >= sp.maxEventCount
          IN  /\ spFiles' = IF full
                            THEN SplitWriteRecord(sp.splitSize, spFiles, sp.record)
                            ELSE spFiles
              /\ sp' = [sp EXCEPT !.added = @ + 1,
                                  !.record = IF full THEN <<event>>
                                             ELSE Append(@, event)]
    /\ UNCHANGED notSplitVars

\* evClose / close(): the last record is written, then the trailer
SplitClose ==
    /\ sp.state = "open"
    /\ LET written == IF sp.record = <<>> THEN spFiles
                      ELSE SplitWriteRecord(sp.splitSize, spFiles, sp.record)
       IN  spFiles' = [written EXCEPT ![Len(written)] = Append(@, TrailerItem)]
    /\ sp' = [sp EXCEPT !.state = "closed", !.record = <<>>]
    /\ UNCHANGED notSplitVars

SplitNext ==
    \/ SplitAddEvent
    \/ SplitClose

\* ======================================================================
\* evioswap: swapping the endianness of one evio event
\* (src/unnamed/part_004, the C routines; src/unnamed/part_001, evioswap.java)
\* ======================================================================
\* A 32-bit word is the tuple of its four bytes, most significant first as
\* the host reads it.  A buffer is a sequence of words; offsets are 1-based.

\* nesting depth of the events swapped
MaxDepth == 3

SWAP32(w) == <<w[4], w[3], w[2], w[1]>>

\* the two 16-bit values held in one word, each with its bytes exchanged
SWAP16(w) == <<w[2], w[1], w[4], w[3]>>

ZeroWord == <<0, 0, 0, 0>>

\* what an output buffer holds before anything is written into it
JunkWord == <<9, 9, 9, 9>>

WordValue(w) == ((w[1] * 256 + w[2]) * 256 + w[3]) * 256 + w[4]

LowHalf(w) == w[3] * 256 + w[4]

SwapLangs == {"c", "java"}

\* m.data is the buffer handed in, m.dest the output buffer; with
\* m.inPlace (dest == NULL) every write goes to m.data itself
SwapMemory(data, inPlace) ==
    [data |-> data, dest |-> [i \in DOMAIN data |-> JunkWord],
     inPlace |-> inPlace]

DataWord(m, i) == IF i \in DOMAIN m.data THEN m.data[i] ELSE ZeroWord

DestWord(m, i) ==
    IF m.inPlace THEN DataWord(m, i)
    ELSE IF i \in DOMAIN m.dest THEN m.dest[i] ELSE ZeroWord

\* the words the swap has produced
SwapOutput(m) == IF m.inPlace THEN m.data ELSE m.dest

\* dest[i] = f(i) for the words off .. off+length-1
StoreWords(m, off, length, f(_)) ==
    IF m.inPlace
    THEN [m EXCEPT !.data = [i \in DOMAIN m.data |->
              IF i >= off /\ i < off + length THEN f(i) ELSE m.data[i]]]
    ELSE [m EXCEPT !.dest = [i \in DOMAIN m.dest |->
              IF i >= off /\ i < off + length THEN f(i) ELSE m.dest[i]]]

swap_int32_t(m, off, length) ==
    LET f(i) == SWAP32(DataWord(m, i)) IN StoreWords(m, off, length, f)

\* called with length*2 shorts, that is length whole words
swap_int16_t(m, off, length) ==
    LET f(i) == SWAP16(DataWord(m, i)) IN StoreWords(m, off, length, f)

\* called with length/2 longs; a long is two words, all eight bytes reversed
swap_int64_t(m, off, length) ==
    LET f(i) == IF (i - off) % 2 = 0 THEN SWAP32(DataWord(m, i + 1))
                                     ELSE SWAP32(DataWord(m, i - 1))
    IN  StoreWords(m, off, 2 * (length \div 2), f)

\* the Java swap_long steps through the words two at a time
swap_long(m, off, length) ==
    LET f(i) == IF (i - off) % 2 = 0 THEN SWAP32(DataWord(m, i + 1))
                                     ELSE SWAP32(DataWord(m, i - 1))
    IN  StoreWords(m, off, 2 * ((length + 1) \div 2), f)

copy_data(m, off, length) ==
    IF m.inPlace THEN m
    ELSE LET f(i) == DataWord(m, i) IN StoreWords(m, off, length, f)

\* the mask applied to the type byte of a bank or segment header
TypeMask(lang) == IF lang = "c" THEN 64 ELSE 256

\* the buffer a fragment's length is read from inside the loops of
\* swap_data: the swapped one when swapping to local, else the one before
FragmentFrom_before(before, after, tolocal) == before

FragmentFrom(before, after, tolocal) == IF tolocal THEN after ELSE before

RECURSIVE swap_data(_, _, _, _, _, _)
RECURSIVE swap_fragments(_, _, _, _, _, _, _)

\* the header words as the routine reads them: C swaps first and reads the
\* output, Java swaps the value it reads
HeaderWord(m, off, tolocal, lang) ==
    IF ~tolocal THEN DataWord(m, off)
    ELSE IF lang = "c" THEN DestWord(swap_int32_t(m, off, 1), off)
    ELSE SWAP32(DataWord(m, off))

swap_bank(m, off, tolocal, lang) ==
    LET p0 == HeaderWord(m, off, tolocal, lang)
        p1 == HeaderWord(m, off + 1, tolocal, lang)
        data_length == WordValue(p0) - 1
        data_type == p1[3] % TypeMask(lang)
    IN  swap_data(swap_int32_t(m, off, 2), off + 2, data_type, data_length,
                  tolocal, lang)

swap_segment(m, off, tolocal, lang) ==
    LET p0 == HeaderWord(m, off, tolocal, lang)
        data_length == LowHalf(p0)
        data_type == p0[2] % TypeMask(lang)
    IN  swap_data(swap_int32_t(m, off, 1), off + 1, data_type, data_length,
                  tolocal, lang)

swap_tagsegment(m, off, tolocal, lang) ==
    LET p0 == HeaderWord(m, off, tolocal, lang)
        data_length == LowHalf(p0)
        data_type == p0[2] % 16
    IN  swap_data(swap_int32_t(m, off, 1), off + 1, data_type, data_length,
                  tolocal, lang)

\* the while (l < length) loops of swap_data over banks, segments, tagsegments
swap_fragments(kind, m, off, l, length, tolocal, lang) ==
    IF l >= length THEN m
    ELSE LET swapped == CASE kind = "bank" -> swap_bank(m, off + l, tolocal, lang)
                          [] kind = "segment" -> swap_segment(m, off + l, tolocal, lang)
                          [] OTHER -> swap_tagsegment(m, off + l, tolocal, lang)
             from == FragmentFrom(m, swapped, tolocal)
             word == IF tolocal THEN DestWord(from, off + l)
                                ELSE DataWord(from, off + l)
             fraglen == IF kind = "bank" THEN WordValue(word) + 1
                                         ELSE LowHalf(word) + 1
         IN  swap_fragments(kind, swapped, off, l + fraglen, length, tolocal, lang)

\* composite data (0xf, eviofmtswap) is not among the events swapped here
swap_data(m, off, type, length, tolocal, lang) ==
    CASE type = 0 -> copy_data(m, off, length)
      [] type \in {1, 2, 11} -> swap_int32_t(m, off, length)
      [] type \in {3, 6, 7} -> copy_data(m, off, length)
      [] type \in {4, 5} -> swap_int16_t(m, off, length)
      [] type \in {8, 9, 10} ->
            IF lang = "c" THEN swap_int64_t(m, off, length)
                          ELSE swap_long(m, off, length)
      [] type \in {14, 16} -> swap_fragments("bank", m, off, 0, length, tolocal, lang)
      [] type \in {13, 32} -> swap_fragments("segment", m, off, 0, length, tolocal, lang)
      [] type = 12 \/ (type = 64 /\ lang = "java") ->
            swap_fragments("tagsegment", m, off, 0, length, tolocal, lang)
      [] OTHER -> copy_data(m, off, length)

evioswap(buf, tolocal, inPlace, lang) ==
    SwapOutput(swap_bank(SwapMemory(buf, inPlace), 1, tolocal, lang))

\* what the call leaves in buf itself
BufAfter(buf, tolocal, inPlace, lang) ==
    swap_bank(SwapMemory(buf, inPlace), 1, tolocal, lang).data

\* ---- the events swapped: a chain of nested structures, the innermost a
\* ---- leaf, each nested structure optionally between two sibling leaves
StructureKinds == {"bank", "segment", "tagsegment"}

\* the kinds of the nested structures, outermost first; an event is a bank
RECURSIVE KindChains(_)
KindChains(n) ==
    IF n = 1 THEN {<<"bank">>}
    ELSE LET shorter == KindChains(n - 1)
         IN  shorter \cup {Append(c, k) : c \in {s \in shorter : Len(s) = n - 1},
                                          k \in StructureKinds}

SwapLeaves ==
    { [type |-> 1, pad |-> 0, data |-> <<<<1, 2, 3, 4>>>>],
      [type |-> 3, pad |-> 0, data |-> <<<<65, 66, 67, 68>>>>],
      [type |-> 3, pad |-> 3, data |-> <<<<65, 0, 0, 0>>>>],
      [type |-> 4, pad |-> 0, data |-> <<<<5, 6, 7, 8>>>>],
      [type |-> 4, pad |-> 2, data |-> <<<<5, 6, 0, 0>>, <<7, 8, 0, 0>>>>],
      [type |-> 8, pad |-> 0, data |-> <<<<1, 2, 3, 4>>, <<5, 6, 7, 8>>>>],
      [type |-> 1, pad |-> 0, data |-> <<>>] }

\* 64-bit data of an odd number of words
OddLongLeaf ==
    [type |-> 8, pad |-> 0, data |-> <<<<1, 2, 3, 4>>, <<5, 6, 7, 8>>, <<41, 42, 43, 44>>>>]

\* data of a 64-bit type fills whole 64-bit values
WholeLongs(leaf) == leaf.type = 8 => Len(leaf.data) % 2 = 0

LeafBefore == [type |-> 4, pad |-> 0, data |-> <<<<21, 22, 23, 24>>>>]

LeafAfter == [type |-> 8, pad |-> 0, data |-> <<<<31, 32, 33, 34>>, <<35, 36, 37, 38>>>>]

\* leaf data as a file of the other endianness holds it
ForeignData(leaf) ==
    LET d == leaf.data
    IN  CASE leaf.type = 1 -> [i \in DOMAIN d |-> SWAP32(d[i])]
          [] leaf.type = 4 -> [i \in DOMAIN d |-> SWAP16(d[i])]
          [] leaf.type = 8 -> [i \in DOMAIN d |->
                 IF i % 2 = 0 THEN SWAP32(d[i - 1])
                 ELSE IF i + 1 \in DOMAIN d THEN SWAP32(d[i + 1])
                 ELSE d[i]]
          [] OTHER -> d

\* header of a structure holding length data words of the given type
StructureHeader(kind, type, pad, length) ==
    CASE kind = "bank" -> << <<0, 0, 0, length + 1>>, <<0, 7, type + 64 * pad, 1>> >>
      [] kind = "segment" -> << <<7, type + 64 * pad, 0, length>> >>
      [] OTHER -> << <<0, 112 + type, 0, length>> >>

HeaderAs(words, foreign) ==
    IF foreign THEN [i \in DOMAIN words |-> SWAP32(words[i])] ELSE words

LeafWords(kind, leaf, foreign) ==
    HeaderAs(StructureHeader(kind, leaf.type, leaf.pad, Len(leaf.data)), foreign)
      \o (IF foreign THEN ForeignData(leaf) ELSE leaf.data)

\* the type a holder records for children of the given kind
ContainerType(kind, alt) ==
    CASE kind = "bank" -> IF alt THEN 16 ELSE 14
      [] kind = "segment" -> IF alt THEN 32 ELSE 13
      [] OTHER -> 12

RECURSIVE StructureWords(_, _, _, _, _, _)
StructureWords(chain, i, leaf, siblings, alt, foreign) ==
    IF i = Len(chain) THEN LeafWords(chain[i], leaf, foreign)
    ELSE LET child == chain[i + 1]
             inner == (IF siblings THEN LeafWords(child, LeafBefore, foreign) ELSE <<>>)
                        \o StructureWords(chain, i + 1, leaf, siblings, alt, foreign)
                        \o (IF siblings THEN LeafWords(child, LeafAfter, foreign) ELSE <<>>)
             type == ContainerType(child, alt /\ chain[i] # "tagsegment")
         IN  HeaderAs(StructureHeader(chain[i], type, 0, Len(inner)), foreign)
               \o inner

NoSwap == <<>>

SwapInitSelf ==
    \E chain \in KindChains(MaxDepth), leaf \in SwapLeaves \cup {OddLongLeaf},
       siblings \in BOOLEAN, alt \in BOOLEAN,
       inPlace \in BOOLEAN, lang \in SwapLangs :
        sw = [chain |-> chain, siblings |-> siblings, inPlace |-> inPlace,
              lang |-> lang, phase |-> "foreign", leaf |-> leaf,
              arg |-> <<>>, src |-> <<>>,
              x |-> StructureWords(chain, 1, leaf, siblings, alt, TRUE),
              local |-> StructureWords(chain, 1, leaf, siblings, alt, FALSE),
              buf |-> StructureWords(chain, 1, leaf, siblings, alt, TRUE)]

\* evioswap(buf, 1, dest)
SwapToLocal ==
    /\ sw # NoSwap
    /\ sw.phase = "foreign"
    /\ sw' = [sw EXCEPT !.phase = "local",
                        !.arg = sw.buf,
                        !.src = BufAfter(sw.buf, TRUE, sw.inPlace, sw.lang),
                        !.buf = evioswap(sw.buf, TRUE, sw.inPlace, sw.lang)]
    /\ UNCHANGED notSwapVars

\* evioswap(buf, 0, dest)
SwapToForeign ==
    /\ sw # NoSwap
    /\ sw.phase = "local"
    /\ sw' = [sw EXCEPT !.phase = "back",
                        !.arg = sw.buf,
                        !.src = BufAfter(sw.buf, FALSE, sw.inPlace, sw.lang),
                        !.buf = evioswap(sw.buf, FALSE, sw.inPlace, sw.lang)]
    /\ UNCHANGED notSwapVars

SwapNext == SwapToLocal \/ SwapToForeign

\* ======================================================================
\* Reader: sequential access (Reader.cpp getNextEvent, getPrevEvent,
\* getNextEventNode) next to random access (getEvent, getEventNode)
\* ======================================================================
\* An event is named by its ordinal in the data, 0 .. n-1.

\* events in the data a reader holds
MaxSeqEvents == 3

\* sequential calls made on one buffer
MaxSeqCalls == 5

\* what a call returned when it returned no event
NullEvent == -1

\* get(index) past the end of eventNodes
OutOfBounds == -2

\* Reader::getEvent(index): the bounds check on the event ordinal; the
\* record stream then hands out the event of that ordinal
getEventAt(n, index) ==
    IF index < 0 \/ index >= n THEN NullEvent ELSE index

\* getNextEvent: the index the event is asked at
NextStart_noflip(sequentialIndex, lastCalledSeqNext) ==
    IF sequentialIndex < 0 THEN 0 ELSE sequentialIndex

NextStart(sequentialIndex, lastCalledSeqNext) ==
    IF sequentialIndex < 0 THEN 0
    ELSE IF ~lastCalledSeqNext THEN sequentialIndex + 1
    ELSE sequentialIndex

\* the cursor of a reader: sequentialIndex, lastCalledSeqNext, and what the
\* last call on it returned
getNextEvent(c, n) ==
    LET at == NextStart(c.sequentialIndex, c.lastCalledSeqNext)
        array == getEventAt(n, at)
    IN  [sequentialIndex |-> IF array = NullEvent THEN at ELSE at + 1,
         lastCalledSeqNext |-> TRUE,
         returned |-> array]

getPrevEvent(c, n) ==
    LET from == IF c.sequentialIndex < 0 THEN c.sequentialIndex
                ELSE IF c.lastCalledSeqNext THEN c.sequentialIndex - 1
                ELSE c.sequentialIndex
        array == getEventAt(n, from - 1)
    IN  [sequentialIndex |-> IF array = NullEvent THEN from ELSE from - 1,
         lastCalledSeqNext |-> FALSE,
         returned |-> array]

\* on a reader of uncompressed buffer data
getNextEventNode(c, n) ==
    IF c.sequentialIndex >= n THEN [c EXCEPT !.returned = NullEvent]
    ELSE LET at == NextStart(c.sequentialIndex, c.lastCalledSeqNext)
         IN  [sequentialIndex |-> at + 1,
              lastCalledSeqNext |-> TRUE,
              returned |-> IF at >= n THEN OutOfBounds ELSE at]

\* the cursor after getEvent(index) or getEventNode(index): neither method
\* assigns sequentialIndex or lastCalledSeqNext
RandomAccessCursor_moved(c, index) == [c EXCEPT !.sequentialIndex = index]

RandomAccessCursor(c, index) == c

\* setBuffer: sequentialIndex = 0; lastCalledSeqNext is left as it was
setBufferCursor(c) == [c EXCEPT !.sequentialIndex = 0]

\* FileEventIndex: the ordinal of the event its cursor is on; a new index
\* is on event 0
NewEventIndex == 0

\* getEvent(index) calls eventIndex.setEvent(index) for an index in range;
\* returned is what getEvent returned
setEventCursor(currentEvent, returned) ==
    IF returned = NullEvent THEN currentEvent ELSE returned

\* FileEventIndex.canAdvance: an event follows the one the cursor is on
canAdvance(currentEvent, n) == currentEvent < n - 1

\* FileEventIndex.canRetreat: an event precedes the one the cursor is on
canRetreat(currentEvent) == currentEvent > 0

\* Reader::hasNext, Reader::hasPrev
hasNext(reader) == canAdvance(reader.currentEvent, reader.n)

hasPrev(reader) == canRetreat(reader.currentEvent)

\* a Reader as constructed; lastCalledSeqNext has no initial value in the
\* sources
NewCursors ==
    {[sequentialIndex |-> -1, lastCalledSeqNext |-> b, returned |-> NullEvent]
        : b \in BOOLEAN}

SeqInitSelf ==
    \E n \in 0..MaxSeqEvents, c \in NewCursors :
        sq = [n |-> n, cursor |-> c, alone |-> c, origin |-> "constructed",
              calls |-> <<>>, random |-> 0, currentEvent |-> NewEventIndex]

\* a sequential call on the reader and on a reader that is only ever
\* called sequentially
SeqCall(op, c, alone) ==
    /\ sq # <<>>
    /\ Len(sq.calls) < MaxSeqCalls
    /\ sq' = [sq EXCEPT !.cursor = c, !.alone = alone,
                        !.calls = Append(@, [op |-> op, returned |-> c.returned]),
                        !.currentEvent = IF op = "node" THEN @
                                         ELSE setEventCursor(@, c.returned)]
    /\ UNCHANGED notSeqVars

SeqGetNextEvent ==
    /\ sq # <<>>
    /\ SeqCall("next", getNextEvent(sq.cursor, sq.n), getNextEvent(sq.alone, sq.n))

SeqGetPrevEvent ==
    /\ sq # <<>>
    /\ SeqCall("prev", getPrevEvent(sq.cursor, sq.n), getPrevEvent(sq.alone, sq.n))

SeqGetNextEventNode ==
    /\ sq # <<>>
    /\ SeqCall("node", getNextEventNode(sq.cursor, sq.n),
               getNextEventNode(sq.alone, sq.n))

\* getEvent(index) and getEventNode(index)
SeqRandomAccess ==
    /\ sq # <<>>
    /\ sq.random < MaxSeqCalls
    /\ \E index \in -1..MaxSeqEvents, asNode \in BOOLEAN :
          sq' = [sq EXCEPT !.cursor = RandomAccessCursor(sq.cursor, index),
                           !.random = @ + 1,
                           !.currentEvent = IF asNode THEN @
                                            ELSE setEventCursor(@, getEventAt(sq.n, index))]
    /\ UNCHANGED notSeqVars

\* setBuffer(buf) with data of any number of events
SeqSetBuffer ==
    /\ sq # <<>>
    /\ sq.origin = "constructed"
    /\ \E n \in 0..MaxSeqEvents :
          sq' = [sq EXCEPT !.n = n, !.origin = "setBuffer",
                           !.cursor = setBufferCursor(sq.cursor),
                           !.alone = setBufferCursor(sq.alone),
                           !.calls = <<>>, !.random = 0,
                           !.currentEvent = NewEventIndex]
    /\ UNCHANGED notSeqVars

SeqNext ==
    \/ SeqGetNextEvent
    \/ SeqGetPrevEvent
    \/ SeqGetNextEventNode
    \/ SeqRandomAccess
    \/ SeqSetBuffer

\* ======================================================================
\* Reader: the record-number sequence check of the scans (Reader.cpp
\* forceScanFile, scanFile, scanBuffer, scanUncompressedBuffer)
\* ======================================================================
\* The data scanned is the sequence of record numbers in its record headers,
\* in the order the records lie in the file or buffer.

\* records in the data scanned, and the largest record number
MaxNumbered == 3

RECURSIVE NumberedData(_)
NumberedData(k) ==
    IF k = 0 THEN {<<>>}
    ELSE LET shorter == NumberedData(k - 1)
         IN  shorter \cup {Append(s, r) : s \in {t \in shorter : Len(t) = k - 1},
                                          r \in 1..MaxNumbered}

\* the loop over the record headers: recordNumberExpected starts at 1 and
\* the check is made only when checkRecordNumberSequence is set
RECURSIVE checkedScan(_, _, _, _)
checkedScan(numbers, k, recordNumberExpected, checkSequence) ==
    IF k > Len(numbers) THEN "ok"
    ELSE IF checkSequence /\ numbers[k] # recordNumberExpected
    THEN "bad record # sequence"
    ELSE checkedScan(numbers, k + 1,
                     IF checkSequence THEN recordNumberExpected + 1
                                      ELSE recordNumberExpected,
                     checkSequence)

forceScanFileNumbers(numbers, checkSequence) ==
    checkedScan(numbers, 1, 1, checkSequence)

\* scanFile(force): with a usable index the record positions come from the
\* index and no record header but the first is read
scanFileNumbers(numbers, force, fileHasIndex, checkSequence) ==
    IF force THEN forceScanFileNumbers(numbers, checkSequence)
    ELSE IF ~fileHasIndex THEN forceScanFileNumbers(numbers, checkSequence)
    ELSE "ok"

\* scanBuffer, through either of its two loops
scanBufferNumbers(numbers, checkSequence) ==
    checkedScan(numbers, 1, 1, checkSequence)

ScanInitSelf ==
    \E numbers \in NumberedData(MaxNumbered) \ {<<>>}, checkSequence \in BOOLEAN :
        rn = [numbers |-> numbers, checkRecordNumberSequence |-> checkSequence,
              built |-> "none", forceScan |-> FALSE, fileHasIndex |-> FALSE,
              status |-> "none", walk |-> <<>>]

\* Reader(filename, forceScan, checkRecordNumSeq) on a file with or without
\* an index in its trailer or file header
ScanOpenFile ==
    /\ rn # <<>>
    /\ rn.built = "none"
    /\ \E force \in BOOLEAN, fileHasIndex \in BOOLEAN :
          rn' = [rn EXCEPT !.built = "file", !.forceScan = force,
                           !.fileHasIndex = fileHasIndex,
                           !.status = scanFileNumbers(rn.numbers, force, fileHasIndex,
                                                      rn.checkRecordNumberSequence)]
    /\ UNCHANGED notScanVars

\* Reader(buffer, pool, checkRecordNumSeq)
ScanOpenBuffer ==
    /\ rn # <<>>
    /\ rn.built = "none"
    /\ rn' = [rn EXCEPT !.built = "buffer",
                        !.status = scanBufferNumbers(rn.numbers,
                                                     rn.checkRecordNumberSequence)]
    /\ UNCHANGED notScanVars

\* setBuffer(buf, pool) on a reader built before, with other data
ScanSetBuffer ==
    /\ rn # <<>>
    /\ rn.built \in {"file", "buffer"}
    /\ \E numbers \in NumberedData(MaxNumbered) \ {<<>>} :
          rn' = [rn EXCEPT !.built = "setBuffer", !.numbers = numbers,
                           !.status = scanBufferNumbers(numbers,
                                                        rn.checkRecordNumberSequence)]
    /\ UNCHANGED notScanVars

\* ======================================================================
\* Reader on a buffer: removeStructure and addStructure (Reader.cpp
\* 1553-1765), with the scan that builds the event nodes
\* ======================================================================
\* The buffer is a sequence of 32-bit words holding uncompressed records in
\* the reader's byte order; positions and the limit are in bytes, the buffer
\* starts at position 0 (bufferOffset = 0).

\* events in the first record of a buffer
MaxRecordEvents == 2

\* removeStructure / addStructure calls made on one reader
MaxEdits == 2

\* steps any walk over the buffer may take
MaxWalk == 12

\* RecordHeader word 8: uncompressed data length in bytes
UNCOMPRESSED_LENGTH_OFFSET == 32

\* buffer.getInt(pos), 0 where the buffer holds nothing
EditGetInt(buf, pos) ==
    IF pos >= 0 /\ pos \div 4 + 1 \in DOMAIN buf THEN buf[pos \div 4 + 1] ELSE 0

\* buffer.putInt(pos, value)
EditPutInt(buf, pos, value) ==
    IF pos >= 0 /\ pos \div 4 + 1 \in DOMAIN buf
    THEN [buf EXCEPT ![pos \div 4 + 1] = value] ELSE buf

\* a word read as a length or a count; words no buffer here can hold as a
\* length are cut to FarPosition / 8, which keeps every sum in 32 bits
EditLength(buf, pos) ==
    LET word == EditGetInt(buf, pos)
    IN  IF word > FarPosition \div 8 THEN FarPosition \div 8
        ELSE IF word < -(FarPosition \div 8) THEN -(FarPosition \div 8) ELSE word

\* ---- the buffers read: banks of leaf banks in records
\* second header word of a bank: tag, data type, num
BankWord(tag, type) == tag * 65536 + type * 256

\* child k of event e: a bank of 32-bit integers, one data word when k is odd
ChildBank(e, k) ==
    IF k % 2 = 1 THEN <<2, BankWord(10 * e + k, 1), 1000 + 10 * e + k>>
    ELSE <<1, BankWord(10 * e + k, 1)>>

RECURSIVE ChildBanks(_, _)
ChildBanks(e, n) == IF n = 0 THEN <<>> ELSE ChildBanks(e, n - 1) \o ChildBank(e, n)

\* event e: a bank of n banks
EventBank(e, n) ==
    <<1 + Len(ChildBanks(e, n)), BankWord(e, 16)>> \o ChildBanks(e, n)

\* the events of a record, given the children each event has; first is the
\* ordinal of the record's first event
RECURSIVE RecordEvents(_, _)
RecordEvents(first, children) ==
    IF children = <<>> THEN <<>>
    ELSE EventBank(first, Head(children)) \o RecordEvents(first + 1, Tail(children))

RECURSIVE RecordIndex(_, _)
RecordIndex(first, children) ==
    IF children = <<>> THEN <<>>
    ELSE <<4 * Len(EventBank(first, Head(children)))>>
           \o RecordIndex(first + 1, Tail(children))

\* RecordHeader.writeHeader followed by the index array and the events
EditRecord(number, first, children, last, compressionType) ==
    LET data == RecordEvents(first, children)
        entries == Len(children)
    IN  << HEADER_SIZE_WORDS + entries + Len(data), number, HEADER_SIZE_WORDS,
           entries, 4 * entries, 6 + (IF last THEN LAST_RECORD_BIT ELSE 0), 0,
           HEADER_MAGIC, 4 * Len(data), compressionType * 268435456, 0, 0, 0, 0 >>
          \o RecordIndex(first, children) \o data

\* a buffer of one or two records; layout[r] lists the children of the
\* events of record r
EditBuffer(layout, compressionType) ==
    IF Len(layout) = 1
    THEN EditRecord(1, 1, layout[1], TRUE, compressionType)
    ELSE EditRecord(1, 1, layout[1], FALSE, compressionType)
           \o EditRecord(2, 1 + Len(layout[1]), layout[2], TRUE, compressionType)

\* what a compressor leaves of the index array and the events of a record
CompressedBlob == <<12648430, 195948557, 61453>>

\* one record as a writer with compression type 1 leaves it: the header of
\* the record, with the compressed length in words 0 and 9, and the blob
CompressedBuffer(layout) ==
    LET header == SubSeq(EditRecord(1, 1, layout[1], TRUE, 1), 1, HEADER_SIZE_WORDS)
    IN  [header EXCEPT ![1] = HEADER_SIZE_WORDS + Len(CompressedBlob),
                       ![10] = 268435456 + Len(CompressedBlob)]
          \o CompressedBlob

ChildCounts == {1, 3}

RecordLayouts(events) ==
    UNION {[1..n -> ChildCounts] : n \in 1..events}

\* one record, or two of which the second holds one event
EditLayouts ==
    {<<first>> : first \in RecordLayouts(MaxRecordEvents)}
      \cup {<<first, second>> : first \in RecordLayouts(MaxRecordEvents),
                               second \in RecordLayouts(1)}

\* ---- the scan
\* a scan that threw: eventNodes keeps the nodes added before the throw
ScanFailed(why, nodes) == [status |-> why, limit |-> 0, eventNodes |-> nodes]

\* the do/while loop of getTotalByteCounts: header + index + user header +
\* uncompressed data of every record up to the one with the last-record
\* bit.  The offset is all the loop carries from one turn to the next, so a
\* loop that has made more turns than the buffer has words is at an offset
\* it was at before and never ends.
RECURSIVE totalByteCountsLoop(_, _, _, _)
totalByteCountsLoop(buf, offset, totalBytes, turns) ==
    IF offset < 0 \/ 4 * Len(buf) - offset < 40
    THEN [outcome |-> "BufferUnderflow", total |-> totalBytes]
    ELSE IF turns = 0 THEN [outcome |-> "never ends", total |-> totalBytes]
    ELSE LET recordBytes == 4 * EditLength(buf, offset + 8) + EditLength(buf, offset + 16)
                              + EditLength(buf, offset + 24)
                              + EditLength(buf, offset + UNCOMPRESSED_LENGTH_OFFSET)
             length == 4 * EditLength(buf, offset)
             last == (EditGetInt(buf, offset + 20) \div LAST_RECORD_BIT) % 2 = 1
         IN  IF last THEN [outcome |-> "returns", total |-> totalBytes + recordBytes]
             ELSE totalByteCountsLoop(buf, offset + length, totalBytes + recordBytes,
                                      turns - 1)

\* getTotalByteCounts: the uncompressed total, -1 when it does not return
getTotalByteCounts(buf, offset, fuel) ==
    LET walk == totalByteCountsLoop(buf, offset, 0, fuel)
    IN  IF walk.outcome = "returns" THEN walk.total ELSE -1

\* EvioNode.extractEventNode: the node of the bank at a position
EventNode(buf, position, place, recordPos) ==
    [pos |-> position, len |-> EditLength(buf, position), place |-> place,
     recordPos |-> recordPos, isEvent |-> TRUE, parent |-> -1]

\* EvioNode.getTotalBytes of a bank: its length word and what it counts
getTotalBytes(node) == 4 * (node.len + 1)

\* the events of one record, from a position on
RECURSIVE scanEvents(_, _, _, _, _)
scanEvents(buf, position, entries, place, recordPos) ==
    IF entries <= 0 THEN [ok |-> TRUE, nodes |-> <<>>, position |-> position]
    ELSE LET node == EventNode(buf, position, place, recordPos)
             byteLen == getTotalBytes(node)
         IN  IF byteLen < 8 \/ position + byteLen > 4 * Len(buf)
             THEN [ok |-> FALSE, nodes |-> <<>>, position |-> position]
             ELSE LET rest == scanEvents(buf, position + byteLen, entries - 1,
                                         place + 1, recordPos)
                  IN  [ok |-> rest.ok, nodes |-> <<node>> \o rest.nodes,
                       position |-> rest.position]

\* the record loop of scanBuffer; every event node is handed record
\* position 0
RECURSIVE scanRecords(_, _, _, _, _, _)
scanRecords(buf, recordPos, bytesLeft, checkSequence, expected, fuel) ==
    LET length == 4 * EditLength(buf, recordPos)
        entries == EditLength(buf, recordPos + 12)
        hop == 4 * EditLength(buf, recordPos + 8) + EditLength(buf, recordPos + 16)
                 + EditLength(buf, recordPos + 24)
        uncompressed == hop + EditLength(buf, recordPos + UNCOMPRESSED_LENGTH_OFFSET)
        last == (EditGetInt(buf, recordPos + 20) \div LAST_RECORD_BIT) % 2 = 1
        events == scanEvents(buf, recordPos + hop, entries, 0, 0)
    IN  IF fuel = 0 \/ length <= 0 \/ entries < 0 \/ entries > MaxWalk
        THEN [status |-> "Bad hipo format", nodes |-> <<>>]
        ELSE IF checkSequence /\ EditGetInt(buf, recordPos + 4) # expected
        THEN [status |-> "bad record # sequence", nodes |-> <<>>]
        ELSE IF length > bytesLeft
        THEN [status |-> "Bad hipo format: not enough data to read record",
              nodes |-> <<>>]
        ELSE IF ~events.ok
        THEN [status |-> "Bad evio format: bad bank length", nodes |-> <<>>]
        ELSE IF last \/ bytesLeft - uncompressed < HEADER_SIZE_BYTES
        THEN [status |-> "ok", nodes |-> events.nodes]
        ELSE LET rest == scanRecords(buf, recordPos + length,
                                     bytesLeft - uncompressed, checkSequence,
                                     expected + 1, fuel - 1)
             IN  [status |-> rest.status, nodes |-> events.nodes \o rest.nodes]

\* RecordHeader.isCompressed(buffer, offset)
isCompressed(buf, offset) == EditGetInt(buf, offset + 36) \div 268435456 # 0

RECURSIVE Renumbered(_, _)
Renumbered(nodes, place) ==
    IF nodes = <<>> THEN <<>>
    ELSE <<[Head(nodes) EXCEPT !.place = place]>> \o Renumbered(Tail(nodes), place + 1)

\* the events of one record as scanUncompressedBuffer finds them, each
\* handed the position of its record
RECURSIVE scanUncompressedRecords(_, _, _, _)
scanUncompressedRecords(buf, position, limit, fuel) ==
    LET length == 4 * EditLength(buf, position)
        entries == EditLength(buf, position + 12)
        hop == 4 * EditLength(buf, position + 8) + EditLength(buf, position + 16)
                 + EditLength(buf, position + 24)
        events == scanEvents(buf, position + hop, entries, 0, position)
    IN  IF limit - position < HEADER_SIZE_BYTES THEN [status |-> "ok", nodes |-> <<>>]
        ELSE IF fuel = 0 THEN [status |-> "never ends", nodes |-> <<>>]
        ELSE IF entries < 0 \/ entries > MaxWalk
        THEN [status |-> "Bad hipo format", nodes |-> <<>>]
        ELSE IF length > limit - position
        THEN [status |-> "Bad hipo format: not enough data to read record",
              nodes |-> <<>>]
        ELSE IF ~events.ok \/ events.position > limit
        THEN [status |-> "Bad evio format: bad bank length", nodes |-> <<>>]
        ELSE LET rest == scanUncompressedRecords(buf, events.position, limit, fuel - 1)
             IN  [status |-> rest.status, nodes |-> events.nodes \o rest.nodes]

\* the quick check at the head of Reader::scanBuffer
scanPath(buf, offset) ==
    IF isCompressed(buf, offset) THEN "scanUncompressedBuffer" ELSE "decompress"

\* Reader::scanBuffer: data that is compressed goes to
\* scanUncompressedBuffer, all other data through the decompression loop
scanBuffer(buf, limit) ==
    IF scanPath(buf, 0) = "scanUncompressedBuffer"
    THEN LET found == scanUncompressedRecords(buf, 0, limit, MaxWalk)
         IN  IF found.status # "ok" THEN ScanFailed(found.status, found.nodes)
             ELSE [status |-> "ok", limit |-> limit,
                   eventNodes |-> Renumbered(found.nodes, 0)]
    ELSE LET total == getTotalByteCounts(buf, 0, MaxWalk)
             found == scanRecords(buf, 0, total, FALSE, 1, MaxWalk)
         IN  IF total < 0 THEN ScanFailed("BufferUnderflow", <<>>)
             ELSE IF found.status # "ok" THEN ScanFailed(found.status, found.nodes)
             ELSE [status |-> "ok", limit |-> total,
                   eventNodes |-> Renumbered(found.nodes, 0)]

\* ---- nodes
\* EvioNode.scanStructure: the banks an event bank holds, in buffer order
RECURSIVE childNodes(_, _, _, _)
childNodes(buf, ev, position, fuel) ==
    LET end == ev.pos + getTotalBytes(ev)
        len == EditLength(buf, position)
    IN  IF fuel = 0 \/ position + 8 > end \/ len < 1 \/ position + 4 * (len + 1) > end
        THEN <<>>
        ELSE <<[pos |-> position, len |-> len, place |-> ev.place,
                recordPos |-> ev.recordPos, isEvent |-> FALSE, parent |-> ev.pos]>>
               \o childNodes(buf, ev, position + 4 * (len + 1), fuel - 1)

\* EvioNode.getAllNodes of an event node: the node and its descendants
getAllNodes(buf, ev) == <<ev>> \o childNodes(buf, ev, ev.pos + 8, MaxWalk)

Range(s) == {s[i] : i \in DOMAIN s}

\* a node as the caller holds it: the scan that made it and where it was
Handle(gen, node) == [gen |-> gen, node |-> node]

NoNode == [gen |-> -1, node |-> [pos |-> -1, len |-> 0, place |-> -1, recordPos |-> -1,
                                 isEvent |-> FALSE, parent |-> -1]]

\* a node of no event of this reader
StrangerNode == [gen |-> -2, node |-> [pos |-> 64, len |-> 1, place |-> 0, recordPos |-> 0,
                                       isEvent |-> FALSE, parent |-> 60]]

\* every node the reader's event nodes reach
ReaderNodes(r) ==
    UNION {{Handle(r.gen, n) : n \in Range(getAllNodes(r.scanned, r.eventNodes[i]))}
           : i \in DOMAIN r.eventNodes}

\* int tag of the bank at a position
BankTag(buf, position) == EditGetInt(buf, position + 4) \div 65536

\* the tags of the banks an event node holds, as a scan of buf finds them
ChildTags(buf, ev) ==
    LET found == childNodes(buf, ev, ev.pos + 8, MaxWalk)
    IN  [i \in DOMAIN found |-> BankTag(buf, found[i].pos)]

\* EvioNode.updateLengths on the parent of a bank of an event: the length
\* word of every ancestor changes by deltaLen bytes, counted in words
updateLengths(buf, parentPos, deltaLen) ==
    EditPutInt(buf, parentPos, EditGetInt(buf, parentPos) + deltaLen \div 4)

\* the record header lengths patched after a change of deltaLen bytes
PatchRecordHeader(buf, pos, deltaLen) ==
    LET oldLen == 4 * EditGetInt(buf, pos)
        first == EditPutInt(buf, pos, (oldLen + deltaLen) \div 4)
    IN  EditPutInt(first, pos + UNCOMPRESSED_LENGTH_OFFSET,
                   EditGetInt(first, pos + UNCOMPRESSED_LENGTH_OFFSET) + deltaLen)

\* setObsolete(true) on the changed node and on every event node, each of
\* which marks its descendants
ObsoleteMarked_onlyChanged(changed, r) == changed

ObsoleteMarked(changed, r) == changed \cup ReaderNodes(r)

\* what dereferencing the null parent of an event node may do
NullParentOutcomes == {"thrown", "skipped"}

\* the reader after a call that left it alone
Untouched(r, status) == [reader |-> r, status |-> status, mutated |-> FALSE]

\* the part common to removeStructure and addStructure once the buffer
\* holds the new bytes: ancestors, record header, obsolete marks, scan
Rescanned(r, buf, limit, changed, node, deltaLen, nullOutcome) ==
    IF node.isEvent /\ nullOutcome = "thrown"
    THEN [reader |-> [r EXCEPT !.buf = buf, !.limit = limit,
                               !.obsolete = r.obsolete \cup changed],
          status |-> "null parent", mutated |-> TRUE]
    ELSE LET lengths == IF node.isEvent THEN buf
                        ELSE updateLengths(buf, node.parent, deltaLen)
             patched == PatchRecordHeader(lengths, node.recordPos, deltaLen)
             marked == r.obsolete \cup ObsoleteMarked(changed, r)
             scan == scanBuffer(patched, limit)
         IN  IF scan.status # "ok" \/ scan.limit > 4 * Len(patched)
             THEN [reader |-> [r EXCEPT !.buf = patched, !.limit = limit,
                                        !.scanned = patched,
                                        !.eventNodes = scan.eventNodes,
                                        !.obsolete = marked, !.gen = r.gen + 1,
                                        !.path = scanPath(patched, 0)],
                   status |-> IF scan.status # "ok" THEN scan.status
                              ELSE "new limit beyond capacity",
                   mutated |-> TRUE]
             ELSE [reader |-> [r EXCEPT !.buf = patched, !.limit = scan.limit,
                                        !.scanned = patched,
                                        !.eventNodes = scan.eventNodes,
                                        !.obsolete = marked, !.gen = r.gen + 1,
                                        !.path = scanPath(patched, 0)],
                   status |-> "ok", mutated |-> TRUE]

\* Reader::removeStructure
removeStructure(r, removeNode, nullOutcome) ==
    LET node == removeNode.node
        removeDataLen == getTotalBytes(node)
        startPos == node.pos + removeDataLen
        moved == SubSeq(r.buf, 1, node.pos \div 4)
                   \o SubSeq(r.buf, startPos \div 4 + 1, r.limit \div 4)
                   \o SubSeq(r.buf, (r.limit - removeDataLen) \div 4 + 1, Len(r.buf))
    IN  IF removeNode = NoNode THEN Untouched(r, "ok")
        ELSE IF r.closed THEN Untouched(r, "object closed")
        ELSE IF removeNode \in r.obsolete THEN Untouched(r, "ok")
        ELSE IF isCompressed(r.buf, 0)
        THEN Untouched(r, "cannot remove node from buffer of compressed data")
        ELSE IF removeNode \notin ReaderNodes(r)
        THEN Untouched(r, "removeNode not found in any event")
        ELSE IF startPos > r.limit
        THEN Untouched([r EXCEPT !.obsolete = r.obsolete \cup {removeNode}],
                       "position beyond limit")
        ELSE Rescanned(r, moved, r.limit - removeDataLen, {removeNode}, node,
                       -removeDataLen, nullOutcome)

\* Reader::addStructure; addBuffer is the words it holds, the bytes that
\* follow its last whole word, and whether its byte order is the reader's
addStructure(r, eventNumber, addBuffer, nullOutcome) ==
    LET remaining == 4 * Len(addBuffer.words) + addBuffer.odd
        endPos == r.eventNodes[eventNumber].pos
                    + 8 + 4 * (r.eventNodes[eventNumber].len - 1)
        newBuffer == SubSeq(r.buf, 1, endPos \div 4) \o addBuffer.words
                       \o SubSeq(r.buf, endPos \div 4 + 1, r.limit \div 4)
        replaced == [r EXCEPT !.buf = newBuffer, !.limit = 4 * Len(newBuffer)]
    IN  IF remaining < 8 \/ ~addBuffer.sameOrder
        THEN Untouched(r, "no data to add or byte order mismatch")
        ELSE IF eventNumber < 1 THEN Untouched(r, "event number must be > 0")
        ELSE IF r.closed THEN Untouched(r, "object closed")
        ELSE IF eventNumber > Len(r.eventNodes)
        THEN Untouched(r, "event does not exist")
        ELSE IF remaining % 4 # 0
        THEN Untouched(r, "data added is not in evio format")
        ELSE IF endPos > r.limit THEN Untouched(r, "position beyond limit")
        ELSE IF eventNumber + 1 > Len(r.eventNodes)
        THEN [reader |-> replaced, status |-> "IndexOutOfBounds", mutated |-> TRUE]
        ELSE Rescanned(replaced, newBuffer, 4 * Len(newBuffer), {},
                       r.eventNodes[eventNumber + 1], remaining, nullOutcome)

\* ---- the reader and the calls made on it
\* Reader(ByteBuffer&): the buffer is scanned at construction
NewBufferReader(buf) ==
    LET scan == scanBuffer(buf, 4 * Len(buf))
    IN  [buf |-> buf, limit |-> scan.limit, scanned |-> buf,
         eventNodes |-> scan.eventNodes, closed |-> FALSE, gen |-> 0,
         obsolete |-> {}, path |-> scanPath(buf, 0)]

NoBuffer == [words |-> <<>>, odd |-> 0, sameOrder |-> TRUE]

\* buffers handed to addStructure: a bank of one integer, one too short,
\* one that ends inside a word, one of the other byte order
AddBuffers ==
    { [words |-> <<2, BankWord(77, 1), 7777>>, odd |-> 0, sameOrder |-> TRUE],
      [words |-> <<0>>, odd |-> 0, sameOrder |-> TRUE],
      [words |-> <<1, BankWord(79, 1)>>, odd |-> 2, sameOrder |-> TRUE],
      [words |-> <<1, BankWord(80, 1)>>, odd |-> 0, sameOrder |-> FALSE] }

NoCall ==
    [op |-> "none", status |-> "ok", mutated |-> FALSE, removeNode |-> NoNode,
     eventNumber |-> 0, addBuffer |-> NoBuffer]

EditInitSelf ==
    \E layout \in EditLayouts :
        \E r \in {NewBufferReader(EditBuffer(layout, 0))} :
            ed = [reader |-> r, before |-> r, known |-> ReaderNodes(r),
                  edits |-> 0, last |-> NoCall]

EditRemoveStructure ==
    /\ ed # <<>>
    /\ ed.edits < MaxEdits
    /\ \E removeNode \in ed.known \cup {NoNode, StrangerNode},
          nullOutcome \in NullParentOutcomes :
          \E done \in {removeStructure(ed.reader, removeNode, nullOutcome)} :
              ed' = [reader |-> done.reader, before |-> ed.reader,
                     known |-> ed.known \cup ReaderNodes(done.reader),
                     edits |-> ed.edits + 1,
                     last |-> [op |-> "removeStructure", status |-> done.status,
                               mutated |-> done.mutated, removeNode |-> removeNode,
                               eventNumber |-> 0, addBuffer |-> NoBuffer]]
    /\ UNCHANGED notEditVars

EditAddStructure ==
    /\ ed # <<>>
    /\ ed.edits < MaxEdits
    /\ \E eventNumber \in 0..(Len(ed.reader.eventNodes) + 1),
          addBuffer \in AddBuffers, nullOutcome \in NullParentOutcomes :
          \E done \in {addStructure(ed.reader, eventNumber, addBuffer, nullOutcome)} :
              ed' = [reader |-> done.reader, before |-> ed.reader,
                     known |-> ed.known \cup ReaderNodes(done.reader),
                     edits |-> ed.edits + 1,
                     last |-> [op |-> "addStructure", status |-> done.status,
                               mutated |-> done.mutated, removeNode |-> NoNode,
                               eventNumber |-> eventNumber, addBuffer |-> addBuffer]]
    /\ UNCHANGED notEditVars

\* Reader::close; the reader is not one of a file
close_toggle(r) == [r EXCEPT !.closed = ~r.closed]

close(r) == IF r.closed THEN r ELSE [r EXCEPT !.closed = TRUE]

EditClose ==
    /\ ed # <<>>
    /\ ed' = [ed EXCEPT !.reader = close(ed.reader), !.before = ed.reader,
                        !.last = [NoCall EXCEPT !.op = "close"]]
    /\ UNCHANGED notEditVars

\* Reader::setBuffer: the new buffer is scanned, then closed = false; the
\* node list is cleared without a mark on the nodes it held
setBuffer(r, buf) ==
    LET scan == scanBuffer(buf, 4 * Len(buf))
    IN  IF scan.status # "ok"
        THEN [r EXCEPT !.buf = buf, !.limit = 4 * Len(buf), !.scanned = buf,
                       !.eventNodes = scan.eventNodes, !.gen = r.gen + 1,
                       !.path = scanPath(buf, 0)]
        ELSE [r EXCEPT !.buf = buf, !.limit = scan.limit, !.scanned = buf,
                       !.eventNodes = scan.eventNodes, !.gen = r.gen + 1,
                       !.closed = FALSE, !.path = scanPath(buf, 0)]

\* the buffers handed to setBuffer: one record of one event
SetBufferLayouts == {<<first>> : first \in RecordLayouts(1)}

\* known starts again with the nodes of the new buffer; the buffer holds
\* plain or compressed data
EditSetBuffer ==
    /\ ed # <<>>
    /\ ed.edits < MaxEdits
    /\ \E layout \in SetBufferLayouts, compressed \in BOOLEAN :
          \E buf \in {IF compressed THEN CompressedBuffer(layout)
                      ELSE EditBuffer(layout, 0)} :
              \E r \in {setBuffer(ed.reader, buf)} :
                  ed' = [reader |-> r, before |-> ed.reader, known |-> ReaderNodes(r),
                         edits |-> ed.edits + 1,
                         last |-> [NoCall EXCEPT
                                     !.op = "setBuffer",
                                     !.status = scanBuffer(buf, 4 * Len(buf)).status]]
    /\ UNCHANGED notEditVars

EditNext == EditRemoveStructure \/ EditAddStructure \/ EditClose \/ EditSetBuffer

\* ======================================================================
\* Reader: the loops of the scans on headers that are not well formed
\* (Reader.cpp getTotalByteCounts, scanUncompressedBuffer, forceScanFile)
\* ======================================================================
\* a record header without events, index or user header: the record
\* length and the header length in words, and the last-record bit
WalkHeader(recordWords, headerWords, last) ==
    << recordWords, 1, headerWords, 0, 0, 6 + (IF last THEN LAST_RECORD_BIT ELSE 0),
       0, HEADER_MAGIC, 0, 0, 0, 0, 0, 0 >>

\* a last record, a record that is not the last, a header that claims a
\* record length of 0, a header that claims a header length of 0
WalkHeaders ==
    { WalkHeader(HEADER_SIZE_WORDS, HEADER_SIZE_WORDS, TRUE),
      WalkHeader(HEADER_SIZE_WORDS, HEADER_SIZE_WORDS, FALSE),
      WalkHeader(0, HEADER_SIZE_WORDS, FALSE),
      WalkHeader(HEADER_SIZE_WORDS, 0, FALSE) }

\* the data scanned: one header, two headers, or less than one header
WalkBuffers ==
    WalkHeaders
      \cup {first \o second : first \in WalkHeaders, second \in WalkHeaders}
      \cup {<<>>, SubSeq(WalkHeader(HEADER_SIZE_WORDS, HEADER_SIZE_WORDS, TRUE), 1, 5)}

\* the data as a little-endian file: after a file header when it holds
\* whole records, on its own when it is shorter than one header
WalkFile(buf) ==
    IF Len(buf) < HEADER_SIZE_WORDS THEN WordsBytes(buf, "LE")
    ELSE FileHeaderBytes("LE", 0, 0, FALSE) \o WordsBytes(buf, "LE")

\* getTotalByteCounts and scanUncompressedBuffer on the data as a buffer,
\* forceScanFile on the data as a file: how each loop ends
WalkOutcomes ==
    [buf \in WalkBuffers |->
        [buf |-> buf,
         getTotalByteCounts |-> totalByteCountsLoop(buf, 0, 0, Len(buf) + 1).outcome,
         scanUncompressedBuffer |->
             scanUncompressedRecords(buf, 0, 4 * Len(buf), MaxWalk).status,
         forceScanFile |-> forceScanFile(WalkFile(buf), "LE").status]]

\* the three loops run on data that need not be well formed, by a reader
\* that does not check record numbers
ScanWalk ==
    /\ rn # <<>>
    /\ rn.built = "none"
    /\ ~rn.checkRecordNumberSequence
    /\ \E buf \in WalkBuffers :
          rn' = [rn EXCEPT !.built = "walk", !.walk = WalkOutcomes[buf]]
    /\ UNCHANGED notScanVars

ScanNext == ScanOpenFile \/ ScanOpenBuffer \/ ScanSetBuffer \/ ScanWalk

(***************************************************************************)
(* The specifications, one for each subsystem.                             *)
(***************************************************************************)
SwapIdle == sw = <<>>

EditIdle == ed = <<>>

SeqIdle == sq = <<>>

ScanIdle == rn = <<>>

EarlierIdle == RingIdle /\ HdrIdle /\ FileIdle /\ SplitIdle

LaterIdle == SwapIdle /\ EditIdle /\ SeqIdle /\ ScanIdle

RingInit == RingInitSelf /\ HdrIdle /\ FileIdle /\ SplitIdle /\ LaterIdle

SpecRing == RingInit /\ [][RingNext]_vars

\* The compressors and the writer are OS threads of their own and close()
\* runs to completion once called; nothing is assumed of the caller of
\* addEvent.
FairRing ==
    /\ SpecRing
    /\ \A k \in 0..(MaxCompThreads - 1) : WF_vars(k \in Compressors /\ CompressorStep(k))
    /\ WF_vars(WriterStep)
    /\ WF_vars(CloseDrained \/ CloseTrailer)

HdrInit == HdrInitSelf /\ RingIdle /\ FileIdle /\ SplitIdle /\ LaterIdle

SpecHeader == HdrInit /\ [][HdrNext]_vars

FileInit == FileInitSelf /\ RingIdle /\ HdrIdle /\ SplitIdle /\ LaterIdle

SpecFile == FileInit /\ [][FileNext]_vars

SplitInit == SplitInitSelf /\ RingIdle /\ HdrIdle /\ FileIdle /\ LaterIdle

SpecSplit == SplitInit /\ [][SplitNext]_vars

SwapInit == SwapInitSelf /\ EarlierIdle /\ EditIdle /\ SeqIdle /\ ScanIdle

SpecSwap == SwapInit /\ [][SwapNext]_vars

SeqInit == SeqInitSelf /\ EarlierIdle /\ SwapIdle /\ EditIdle /\ ScanIdle

SpecSeq == SeqInit /\ [][SeqNext]_vars

ScanInit == ScanInitSelf /\ EarlierIdle /\ SwapIdle /\ EditIdle /\ SeqIdle

SpecScan == ScanInit /\ [][ScanNext]_vars

EditInit == EditInitSelf /\ EarlierIdle /\ SwapIdle /\ SeqIdle /\ ScanIdle

SpecEdit == EditInit /\ [][EditNext]_vars

(***************************************************************************)
(* Claims about the ring writer                                            *)
(***************************************************************************)
RecordsOf(f) == SelectSeq(f, LAMBDA r : r.kind = "record")

RECURSIVE EventsOnDisk(_)
EventsOnDisk(f) ==
    IF f = <<>> THEN <<>>
    ELSE IF Head(f).kind = "record" THEN Head(f).events \o EventsOnDisk(Tail(f))
    ELSE EventsOnDisk(Tail(f))

\* the ordinals 0, 1, ..., n-1 in addEvent call order
FirstEvents(n) == [i \in 1..n |-> i - 1]

\* C1: the writer writes the records in strictly increasing sequence order
\* 0, 1, 2, ... (record number = sequence + 1), so the events on disk are in
\* the order of the addEvent calls, for every ring size, every number of
\* compressors and every interleaving.
C1_SubmissionOrder ==
    /\ \A j \in 1..Len(RecordsOf(file)) : RecordsOf(file)[j].recordNumber = j
    /\ Len(EventsOnDisk(file)) <= numEvents
    /\ EventsOnDisk(file) = FirstEvents(Len(EventsOnDisk(file)))

\* C1 witness: a later record finished compression before an earlier one,
\* and both are on disk
C1_Witness ==
    /\ overtaken
    /\ compThreads >= 2
    /\ Len(RecordsOf(file)) >= 3

\* Sequences a party is working on right now
Held == { prodHold, writerHold } \cup { compHold[k] : k \in Compressors }

HoldersOf(i) ==
    (IF prodHold = i THEN 1 ELSE 0) + (IF writerHold = i THEN 1 ELSE 0)
    + Cardinality({ k \in Compressors : compHold[k] = i })

SingleOwner ==
    \* no two sequences in flight share a slot
    /\ nextSequence - writerSequence <= ringSize
    \* a sequence is worked on by at most one party, and only while in flight
    /\ \A i \in Held \ {-1} :
          /\ HoldersOf(i) = 1
          /\ writerSequence <= i
          /\ i < nextSequence
    \* compressor k works only on published sequences of its own stride
    /\ \A k \in Compressors :
          compHold[k] # -1 =>
             /\ compHold[k] % compThreads = k
             /\ compHold[k] <= publishedSequence
             /\ stage[compHold[k]] = Worker(k)
    \* the writer works only on a sequence its compressor marked done
    /\ writerHold # -1 =>
          /\ compSequence[writerHold % compThreads] >= writerHold
          /\ slotBuilt[Slot(writerHold)]
    \* the producer fills only a slot the writer has released
    /\ prodHold # -1 =>
          /\ prodHold - ringSize < writerSequence
          /\ prodHold > publishedSequence

OwnershipStep ==
    \A i \in 0..(MaxSequences - 1) :
        stage'[i] # stage[i] =>
            \/ /\ stage[i].party = "unclaimed"
               /\ stage'[i] = Party("producer")
               /\ i >= ringSize => stage[i - ringSize].party = "released"
            \/ stage[i].party = "producer" /\ stage'[i] = Party("published")
            \/ stage[i].party = "published" /\ stage'[i] = Worker(i % compThreads)
            \/ stage[i].party = "compressor" /\ stage'[i] = Party("done")
            \/ stage[i].party = "done" /\ stage'[i] = Party("writer")
            \/ stage[i].party = "writer" /\ stage'[i] = Party("released")

\* C2: every slot has a single owner at any instant, and the ownership of
\* sequence i moves only producer -> compressor (i mod N) -> writer ->
\* producer: a compressor starts on i only after it is published, the writer
\* takes i only after its compressor marked it done, and the producer claims
\* i only after the writer released i - ringSize.
C2_Ownership == [](SingleOwner) /\ [][OwnershipStep]_vars

\* C2 witness: the producer has lapped the ring (it fills a slot the writer
\* released) while a compressor and the writer each hold another slot
C2_Witness ==
    /\ prodHold >= ringSize
    /\ writerHold # -1
    /\ \E k \in Compressors : compHold[k] # -1

ValidRingConfig ==
    /\ ringSize \in RingSizes
    /\ 1 <= compThreads
    /\ compThreads <= ringSize - 2

ProducerBlocked == prodHold = -1 /\ ~ProducerGate(nextSequence)
CompressorBlocked(k) == compHold[k] = -1 /\ ~CompressorGate(k, compNext[k])
WriterBlocked == writerHold = -1 /\ ~WriterGate(writerSequence)

RingDeadlocked ==
    /\ writerSequence <= publishedSequence
    /\ \A k \in Compressors : CompressorBlocked(k)
    /\ WriterBlocked

\* C3: with fair scheduling and 1 <= N <= ringSize - 2 the pipeline cannot
\* deadlock: never are all workers blocked at their gates while a published
\* record is unwritten, and every published record is eventually written.
C3_NoDeadlock ==
    /\ [](ValidRingConfig => ~RingDeadlocked)
    /\ \A i \in 0..(MaxSequences - 1) :
          (ValidRingConfig /\ publishedSequence >= i) ~> (writerSequence > i)

\* C3 witness: the ring is full, the producer waits at its gate, and the
\* writer waits for a record that is still being compressed
C3_Witness ==
    /\ ValidRingConfig
    /\ inAddEvent
    /\ ProducerBlocked
    /\ WriterBlocked
    /\ \E k \in Compressors : compHold[k] # -1

\* What a serial writer puts on disk for n events and a given record limit
RECURSIVE ExpectedRecords(_, _, _)
ExpectedRecords(first, n, limit) ==
    IF first >= n THEN <<>>
    ELSE LET last == IF first + limit < n THEN first + limit ELSE n
         IN  <<[kind |-> "record",
                recordNumber |-> (first \div limit) + 1,
                events |-> [i \in 1..(last - first) |-> first + i - 1],
                built |-> TRUE]>>
             \o ExpectedRecords(last, n, limit)

ExpectedFile(n, limit) == ExpectedRecords(0, n, limit) \o <<Trailer>>

\* C4: for a fixed sequence of addEvent calls and a fixed configuration the
\* bytes on disk after close() do not depend on the number of compression
\* threads: they are those of the serial writer.
C4_ThreadCountIndependent ==
    closeState = "closed" => file = ExpectedFile(numEvents, maxEventCount)

\* C4 witness: a closed file of several records written with two or more
\* compression threads, one record having overtaken another
C4_Witness ==
    /\ closeState = "closed"
    /\ compThreads >= 2
    /\ overtaken
    /\ Len(file) >= 4

CloseReturned ==
    closeState = "closed" =>
        \* every published record was written
        /\ writerSequence > publishedSequence
        /\ EventsOnDisk(file) = FirstEvents(numEvents)
        \* the trailer is the last thing in the file, and the only trailer
        /\ Len(file) >= 1
        /\ file[Len(file)] = Trailer
        /\ \A j \in 1..(Len(file) - 1) : file[j].kind = "record"
        \* every worker has terminated
        /\ \A k \in Compressors : ~compAlive[k] /\ compHold[k] = -1
        /\ ~writerAlive /\ writerHold = -1

NothingAfterTrailer ==
    (\E j \in 1..Len(file) : file[j] = Trailer) => file' = file

\* C5: close() returns only after every published record is on disk; the
\* trailer follows the last data record and nothing is written after it;
\* all compressor and writer threads have terminated when close() returns.
C5_CloseDrains == [](CloseReturned) /\ [][NothingAfterTrailer]_vars

\* C5 witness: close() has returned on a file with several records
C5_Witness ==
    /\ closeState = "closed"
    /\ writerSequence >= 3
    /\ Len(file) >= 3
    /\ file[Len(file)] = Trailer

(***************************************************************************)
(* Claims about the splitting writer                                       *)
(***************************************************************************)
\* the event ordinals found in a sequence of items, in order
RECURSIVE EventIdsOf(_)
EventIdsOf(items) ==
    IF items = <<>> THEN <<>>
    ELSE (IF Head(items).kind = "event" THEN <<Head(items).id>> ELSE <<>>)
         \o EventIdsOf(Tail(items))

\* the events read from the files in split-number order
RECURSIVE EventIdsAcross(_)
EventIdsAcross(files) ==
    IF files = <<>> THEN <<>>
    ELSE EventIdsOf(Head(files)) \o EventIdsAcross(Tail(files))

\* from item k on, a file is made of whole records (a record header followed
\* by all of its events) and at most a trailer at its very end
RECURSIVE WholeRecordsFrom(_, _)
WholeRecordsFrom(items, k) ==
    IF k > Len(items) THEN TRUE
    ELSE IF items[k].kind = "recordHeader"
    THEN /\ k + items[k].entries <= Len(items)
         /\ \A j \in 1..items[k].entries : items[k + j].kind = "event"
         /\ WholeRecordsFrom(items, k + items[k].entries + 1)
    ELSE items[k].kind = "trailer" /\ k = Len(items)

\* C6: with a split size > 0, every submitted event is in exactly one output
\* file, no record is divided across two files, each file starts with a
\* complete file header, and the files read in split-number order give the
\* events in submission order.
C6_SplitKeepsEvents ==
    sp.splitSize > 0 =>
        /\ \A f \in 1..Len(spFiles) :
              /\ spFiles[f] # <<>>
              /\ spFiles[f][1] = FileHeaderItem
              /\ WholeRecordsFrom(spFiles[f], 2)
        /\ EventIdsAcross(spFiles) \o [k \in 1..Len(sp.record) |-> sp.record[k].id]
              = [i \in 1..sp.added |-> i]
        /\ sp.state = "closed" => sp.record = <<>>

\* a closed writer that split its output, one file holding two records and
\* one record holding two events
C6_Witness ==
    /\ sp.splitSize > 0
    /\ sp.state = "closed"
    /\ sp.added = MaxSplitEvents
    /\ Len(spFiles) >= 2
    /\ \E f \in 1..Len(spFiles) : RecordsIn(spFiles[f]) >= 2
    /\ \E f \in 1..Len(spFiles) : \E k \in 1..Len(spFiles[f]) :
          spFiles[f][k].kind = "recordHeader" /\ spFiles[f][k].entries >= 2

(***************************************************************************)
(* Claims about the file reader                                            *)
(***************************************************************************)
\* C7: for every sequence of events written by a writer under any
\* configuration and then closed, a Reader opened on the file reports
\* getEventCount() equal to the number of events written, and getEvent(i)
\* returns exactly the bytes of the i-th event written.
C7_ReadBack ==
    rd.status # "none" =>
        /\ rd.status = "ok"
        /\ getEventCount(rd) = fw.added
        /\ rdGot.index \in 0..(fw.added - 1) =>
              /\ rdGot.event.result = "event"
              /\ rdGot.event.bytes = EventBytes(rdGot.index + 1, fw.order)

(***************************************************************************)
(* Claims about the header codec                                           *)
(***************************************************************************)
\* a header built with new RecordHeader() was written and read back
HeaderRoundTripDone ==
    /\ hdrPhase = "read"
    /\ hdr.headerMagicWord = HEADER_MAGIC

\* C8: writing a header with writeHeader and reading the 56 bytes back with
\* readHeader yields the same value in every field: record length, record
\* number, header length, entry count, index length, user header length,
\* uncompressed data length, compressed data length, compression type,
\* version and both 64-bit user registers.
C8_HeaderRoundTrip ==
    HeaderRoundTripDone =>
        /\ hdrThrown = "none"
        /\ hdr2.recordLength = hdr.recordLength
        /\ hdr2.recordNumber = hdr.recordNumber
        /\ hdr2.headerLength = hdr.headerLength
        /\ hdr2.entries = hdr.entries
        /\ hdr2.indexLength = hdr.indexLength
        /\ hdr2.userHeaderLength = hdr.userHeaderLength
        /\ hdr2.dataLength = hdr.dataLength
        /\ hdr2.compressedDataLength = hdr.compressedDataLength
        /\ hdr2.compressionType = hdr.compressionType
        /\ hdr2.headerVersion = hdr.headerVersion
        /\ hdr2.recordUserRegisterFirst = hdr.recordUserRegisterFirst
        /\ hdr2.recordUserRegisterSecond = hdr.recordUserRegisterSecond

\* word 7 as readHeader first reads it, in the byte order the buffer had
MagicAsRead == getInt(hbuf, hbufOrderOnEntry, 28)

\* C9: reading a header is decided by word 7 alone: read as 0xC0DA0100 the
\* buffer's byte order is kept; read as 0x0010DAC0 the order is flipped and
\* every field is read in the flipped order; for any other value the read
\* fails with a bad-magic format error.
C9_MagicDecides ==
    hdrPhase = "read" =>
        /\ MagicAsRead = HEADER_MAGIC =>
              /\ hbufOrder = hbufOrderOnEntry
              /\ hdr2.recordNumber = getInt(hbuf, hbufOrderOnEntry, 4)
        /\ MagicAsRead = HEADER_MAGIC_BE =>
              /\ hbufOrder = FlipOrder(hbufOrderOnEntry)
              /\ hdr2.recordNumber = getInt(hbuf, FlipOrder(hbufOrderOnEntry), 4)
              /\ hdr2.entries = getInt(hbuf, FlipOrder(hbufOrderOnEntry), 12)
              /\ hdr2.recordUserRegisterFirst
                    = getLong(hbuf, FlipOrder(hbufOrderOnEntry), 40)
        /\ MagicAsRead \notin {HEADER_MAGIC, HEADER_MAGIC_BE} =>
              hdrThrown = "BadMagic"

\* C10: reading a header whose version field (the low 8 bits of word 5) is
\* less than 6 fails with an unsupported-version error.
C10_VersionChecked ==
    (/\ hdrPhase = "read"
     /\ MagicAsRead \in {HEADER_MAGIC, HEADER_MAGIC_BE}
     /\ getInt(hbuf, hbufOrder, 20) % 256 < 6)
        => hdrThrown = "UnsupportedVersion"

\* the length of the payload that follows the header: the compressed data
\* when the record is compressed, otherwise the uncompressed data
PayloadLength(h) ==
    IF h.compressionType # 0 THEN h.compressedDataLength ELSE h.dataLength

\* C11: for every header the codec produces, whatever setter calls built it,
\* recordLength x 4 (the word count kept in the header and written as word 0)
\* equals headerLength + indexLength + the user header length rounded up to
\* a multiple of 4 + the payload length rounded up to a multiple of 4.
C11_LengthInvariant ==
    hdrPhase \in {"build", "written"} =>
        LET total == hdr.headerLength + hdr.indexLength
                       + hdr.userHeaderLength + getPadding(hdr.userHeaderLength)
                       + PayloadLength(hdr) + getPadding(PayloadLength(hdr))
        IN  /\ hdr.recordLengthWords * 4 = total
            /\ hdrPhase = "written" => getInt(hbuf, hbufOrder, 0) * 4 = total

\* C12: swapping a well-formed event to local endianness and then back gives
\* exactly the words it started from, in place and in copy mode.
C12_SwapTwiceIdentity ==
    (sw # NoSwap /\ sw.phase = "back" /\ WholeLongs(sw.leaf)) => sw.buf = sw.x

\* a three-deep event with sibling leaves has come back, after a first swap
\* that produced the local form of the event
C12_Witness ==
    /\ sw # NoSwap
    /\ sw.phase = "back"
    /\ Len(sw.chain) = 3
    /\ sw.siblings
    /\ ~sw.inPlace
    /\ sw.buf = sw.x
    /\ sw.x # sw.local

\* the first swap of the C routine yields the event as the local host holds it
SwapGivesLocalForm ==
    (sw # NoSwap /\ sw.phase = "local" /\ sw.lang = "c" /\ WholeLongs(sw.leaf)) =>
        sw.buf = sw.local

\* the calls made so far on the buffer are getNextEvent and getPrevEvent only
OnlyEventCalls == \A k \in 1..Len(sq.calls) : sq.calls[k].op \in {"next", "prev"}

\* C17: a getPrevEvent directly after a getNextEvent that returned event i
\* returns event i-1 (null when i = 0), a getNextEvent directly after a
\* getPrevEvent that returned event i returns event i+1 (null when i = n-1),
\* and two consecutive sequential calls never return the same event.
C17_DirectionFlip ==
    (sq # <<>> /\ OnlyEventCalls) =>
        \A k \in 2..Len(sq.calls) :
            LET before == sq.calls[k - 1]
                now == sq.calls[k]
            IN  before.returned # NullEvent =>
                  /\ (before.op = "next" /\ now.op = "prev") =>
                        now.returned = (IF before.returned = 0 THEN NullEvent
                                        ELSE before.returned - 1)
                  /\ (before.op = "prev" /\ now.op = "next") =>
                        now.returned = (IF before.returned = sq.n - 1 THEN NullEvent
                                        ELSE before.returned + 1)
                  /\ now.returned # before.returned

\* both flips have happened on data of three events, with random-access
\* calls in between
C17_Witness ==
    /\ sq # <<>>
    /\ sq.n = 3
    /\ sq.random > 0
    /\ Len(sq.calls) = 5
    /\ sq.calls[2] = [op |-> "next", returned |-> 1]
    /\ sq.calls[3] = [op |-> "prev", returned |-> 0]
    /\ sq.calls[4] = [op |-> "next", returned |-> 1]
    /\ sq.calls[5] = [op |-> "next", returned |-> 2]

C19_SequentialFromStart ==
    sq # <<>> =>
        /\ (\A k \in 1..Len(sq.calls) : sq.calls[k].op = "next") =>
              \A k \in 1..Len(sq.calls) :
                  sq.calls[k].returned = (IF k <= sq.n THEN k - 1 ELSE NullEvent)
        /\ (Len(sq.calls) >= 1 /\ sq.calls[1].op = "prev") =>
              sq.calls[1].returned = NullEvent

\* the same, of a freshly constructed reader alone
C19_FreshReader ==
    (sq # <<>> /\ sq.origin = "constructed") => C19_SequentialFromStart

\* the record numbers are exactly 1, 2, 3, ... in order
InSequence(numbers) == \A k \in 1..Len(numbers) : numbers[k] = k

\* C20: with record-number checking enabled, building a Reader (from a file
\* with or without forced scan, or from a buffer) or calling setBuffer on
\* data whose record numbers are not 1, 2, 3, ... in order fails with a
\* bad-record-sequence error; with checking disabled no such error is raised.
C20_SequenceChecked ==
    (rn # <<>> /\ rn.built \in {"file", "buffer", "setBuffer"}) =>
        (rn.status = "bad record # sequence"
            <=> (rn.checkRecordNumberSequence /\ ~InSequence(rn.numbers)))

\* the same, leaving out a file read through its index
C20_ScannedHeaders ==
    (rn # <<>> /\ rn.built \in {"file", "buffer", "setBuffer"}
       /\ ~(rn.built = "file" /\ ~rn.forceScan /\ rn.fileHasIndex)) =>
        (rn.status = "bad record # sequence"
            <=> (rn.checkRecordNumberSequence /\ ~InSequence(rn.numbers)))

\* ----------------------------------------------------------------------
\* removeStructure and addStructure
\* ----------------------------------------------------------------------
\* position of the record whose bytes hold a position of the buffer
RECURSIVE OwningRecord(_, _, _, _)
OwningRecord(buf, recordPos, position, fuel) ==
    IF fuel = 0 \/ EditLength(buf, recordPos) <= 0
         \/ position < recordPos + 4 * EditLength(buf, recordPos)
    THEN recordPos
    ELSE OwningRecord(buf, recordPos + 4 * EditLength(buf, recordPos), position, fuel - 1)

\* a sequence without its element i
Without(s, i) == SubSeq(s, 1, i - 1) \o SubSeq(s, i + 1, Len(s))

\* the last call was the first made on the reader
FirstEdit == ed # <<>> /\ ed.edits = 1

\* the last call was removeStructure(B) for a non-obsolete bank B inside
\* an event of an open reader on uncompressed data
RemovedSubStructure ==
    /\ FirstEdit
    /\ ed.last.op = "removeStructure"
    /\ ed.last.removeNode \in ReaderNodes(ed.before)
    /\ ~ed.last.removeNode.node.isEvent
    /\ ~ed.before.closed
    /\ ~isCompressed(ed.before.buf, 0)

\* what removeStructure(B) is to have done to the buffer and the nodes
RemoveEffects(before, after, status, B) ==
    LET removed == getTotalBytes(B)
        record == OwningRecord(before.buf, 0, B.pos, MaxWalk)
        event == CHOOSE ev \in Range(before.eventNodes) : ev.pos = B.parent
        siblings == childNodes(before.scanned, event, event.pos + 8, MaxWalk)
        place == CHOOSE i \in DOMAIN siblings : siblings[i].pos = B.pos
    IN  /\ status = "ok"
        /\ after.limit = before.limit - removed
        /\ \A i \in (B.pos \div 4 + 1)..(after.limit \div 4) :
               after.buf[i] = before.buf[i + removed \div 4]
        /\ EditGetInt(after.buf, event.pos)
             = EditGetInt(before.buf, event.pos) - removed \div 4
        /\ EditGetInt(after.buf, record) = EditGetInt(before.buf, record) - removed \div 4
        /\ EditGetInt(after.buf, record + UNCOMPRESSED_LENGTH_OFFSET)
             = EditGetInt(before.buf, record + UNCOMPRESSED_LENGTH_OFFSET) - removed
        /\ \E ev \in Range(after.eventNodes) :
               /\ ev.pos = event.pos
               /\ ChildTags(after.buf, ev)
                    = Without(ChildTags(before.buf, event), place)

\* C13: removeStructure(B), for a non-obsolete sub-structure B of r bytes
\* inside an event of an open reader on uncompressed data, lowers the buffer
\* limit by r, moves the bytes that followed B down by r, lowers the length
\* word of the event by r/4, lowers the owning record header's recordLength
\* by r/4 words and its uncompressedDataLength by r bytes, and the rescan
\* shows B's former siblings in their original order without B.
C13_RemoveEffects ==
    RemovedSubStructure
        => RemoveEffects(ed.before, ed.reader, ed.last.status, ed.last.removeNode.node)

\* the same for a sub-structure of an event of the first record of the
\* buffer
C13_FirstRecordOnly ==
    (RemovedSubStructure
       /\ OwningRecord(ed.before.buf, 0, ed.last.removeNode.node.pos, MaxWalk) = 0)
        => RemoveEffects(ed.before, ed.reader, ed.last.status, ed.last.removeNode.node)

\* a sub-structure was removed from an event of the first record
C13_Removed ==
    /\ RemovedSubStructure
    /\ OwningRecord(ed.before.buf, 0, ed.last.removeNode.node.pos, MaxWalk) = 0
    /\ Len(ed.before.eventNodes) > 1
    /\ ed.last.status = "ok"

\* the last call was a removeStructure or addStructure that completed
\* after changing the buffer
SuccessfulMutation ==
    /\ ed # <<>>
    /\ ed.last.op \in {"removeStructure", "addStructure"}
    /\ ed.last.mutated
    /\ ed.last.status = "ok"

EditCalled == ed # <<>> /\ ed.last.op \in {"removeStructure", "addStructure"}

\* buffer contents, limit and node list are those before the call
LeftAsBefore ==
    /\ ed.reader.buf = ed.before.buf
    /\ ed.reader.limit = ed.before.limit
    /\ ed.reader.eventNodes = ed.before.eventNodes

\* the record headers account for every byte up to the limit, and every
\* event the headers count was found
LengthsAgree ==
    /\ getTotalByteCounts(ed.reader.buf, 0, MaxWalk) = ed.reader.limit
    /\ scanUncompressedRecords(ed.reader.buf, 0, ed.reader.limit, MaxWalk).status = "ok"

\* C15: every call of removeStructure or addStructure either completes with
\* the buffer bytes, the limit, the ancestor length words and the record
\* header lengths adjusted together, or raises an error and leaves the
\* buffer contents, its limit, the record header and the reader's node
\* lists exactly as they were before the call, whatever the argument.
C15_AllOrNothing ==
    (EditCalled /\ FirstEdit) =>
        IF ed.last.status = "ok"
        THEN ed.last.mutated => LengthsAgree
        ELSE LeftAsBefore

\* the errors raised before the buffer is touched leave everything alone:
\* a closed reader, a node found in no event, an event number out of
\* range, a buffer to add that is too short, of the other byte order, or
\* not a whole number of words, a node that ends beyond the limit
ArgumentErrors ==
    {"object closed", "removeNode not found in any event",
     "no data to add or byte order mismatch", "event number must be > 0",
     "event does not exist", "data added is not in evio format",
     "cannot remove node from buffer of compressed data", "position beyond limit"}

C15_ArgumentErrorsClean ==
    (EditCalled /\ ed.last.status \in ArgumentErrors) => LeftAsBefore

\* every error raised after the checks of the arguments
C15_LateErrors ==
    (EditCalled /\ ed.last.status \notin ArgumentErrors \cup {"ok"}) => ed.last.mutated

\* the last call was addStructure(n, addBuf) on an open reader, with
\* 1 <= n <= event count and addBuf holding a whole number of words, at
\* least two, in the reader's byte order
AddedToEvent ==
    /\ FirstEdit
    /\ ed.last.op = "addStructure"
    /\ ed.last.eventNumber \in 1..Len(ed.before.eventNodes)
    /\ ed.last.addBuffer.odd = 0
    /\ Len(ed.last.addBuffer.words) >= 2
    /\ ed.last.addBuffer.sameOrder
    /\ ~ed.before.closed

\* where a position of the old buffer is after an insertion
Shifted(position, endPos, added) ==
    IF position >= endPos THEN position + added ELSE position

\* what addStructure(n, addBuf) is to have done to the buffer and the nodes
AddEffects(before, after, status, n, words) ==
    LET event == before.eventNodes[n]
        added == 4 * Len(words)
        endPos == event.pos + getTotalBytes(event)
        record == OwningRecord(before.buf, 0, event.pos, MaxWalk)
        inserted == SubSeq(before.buf, 1, endPos \div 4) \o words
                      \o SubSeq(before.buf, endPos \div 4 + 1, before.limit \div 4)
        lengths == {event.pos, record, record + UNCOMPRESSED_LENGTH_OFFSET}
    IN  /\ status = "ok"
        /\ after.limit = before.limit + added
        /\ Len(after.buf) = Len(inserted)
        /\ \A i \in DOMAIN inserted :
               4 * (i - 1) \notin lengths => after.buf[i] = inserted[i]
        /\ EditGetInt(after.buf, event.pos)
             = EditGetInt(before.buf, event.pos) + Len(words)
        /\ EditGetInt(after.buf, record) = EditGetInt(before.buf, record) + Len(words)
        /\ EditGetInt(after.buf, record + UNCOMPRESSED_LENGTH_OFFSET)
             = EditGetInt(before.buf, record + UNCOMPRESSED_LENGTH_OFFSET) + added
        /\ \A i \in DOMAIN before.eventNodes :
               i # n => EditGetInt(after.buf, Shifted(before.eventNodes[i].pos, endPos, added))
                          = EditGetInt(before.buf, before.eventNodes[i].pos)
        /\ n \in DOMAIN after.eventNodes
        /\ after.eventNodes[n].pos = event.pos
        /\ ChildTags(after.buf, after.eventNodes[n])
             = ChildTags(before.buf, event) \o <<BankTag(words, 0)>>

\* C16: addStructure(n, addBuf) with 1 <= n <= event count and addBuf
\* holding a multiple of 4 bytes (at least 8) in the reader's byte order
\* gives the old buffer with addBuf's bytes inserted right after the last
\* data byte of event n; the length word of event n and the owning record
\* header's recordLength grow by len/4 words, uncompressedDataLength grows
\* by len bytes, no other event's length word changes, and the rescan shows
\* the added structure as the last child of event n.
C16_AddEffects ==
    AddedToEvent
        => AddEffects(ed.before, ed.reader, ed.last.status, ed.last.eventNumber,
                      ed.last.addBuffer.words)

\* the bytes are inserted after event n, but the length word of event n
\* is never changed, and the call completes only for n below the event
\* count
C16_EventNeverGrows ==
    AddedToEvent =>
        LET event == ed.before.eventNodes[ed.last.eventNumber]
            endPos == event.pos + getTotalBytes(event)
        IN  /\ EditGetInt(ed.reader.buf, event.pos) = EditGetInt(ed.before.buf, event.pos)
            /\ SubSeq(ed.reader.buf, endPos \div 4 + 1,
                      endPos \div 4 + Len(ed.last.addBuffer.words))
                 = ed.last.addBuffer.words
            /\ ed.last.eventNumber = Len(ed.before.eventNodes)
                 => ed.last.status = "IndexOutOfBounds"

\* ----------------------------------------------------------------------
\* hasNext / hasPrev and the sequential calls
\* ----------------------------------------------------------------------
\* hasNext() and hasPrev() say what the next getNextEvent() or
\* getPrevEvent() will do
HasNextAgrees(reader) ==
    /\ hasNext(reader) <=> getNextEvent(reader.cursor, reader.n).returned # NullEvent
    /\ hasPrev(reader) <=> getPrevEvent(reader.cursor, reader.n).returned # NullEvent

\* C21: in every reachable state of a Reader, hasNext() is true exactly
\* when the getNextEvent() that follows returns an event, and hasPrev() is
\* true exactly when the getPrevEvent() that follows does; so the loop
\* 'while (hasNext()) getNextEvent()' on a fresh reader visits every event
\* once and never receives null.
C21_HasNextAgrees == sq # <<>> => HasNextAgrees(sq)

\* hasNext() alone, on a reader constructed on two or more events and only
\* ever asked for the next event
C21_ForwardLoop ==
    (/\ sq # <<>>
     /\ sq.origin = "constructed"
     /\ sq.n >= 2
     /\ sq.random = 0
     /\ \A k \in 1..Len(sq.calls) : sq.calls[k].op = "next")
        => (hasNext(sq) <=> getNextEvent(sq.cursor, sq.n).returned # NullEvent)

\* getNextEventNode() does to the cursor what getNextEvent() does and
\* returns the node of the event getNextEvent() returns
NodeCallAgrees(reader) ==
    LET node == getNextEventNode(reader.cursor, reader.n)
        event == getNextEvent(reader.cursor, reader.n)
    IN  /\ node.sequentialIndex = event.sequentialIndex
        /\ node.returned = event.returned
        /\ node.returned # OutOfBounds

\* C25: on an uncompressed buffer of n events, after any sequence of
\* getNextEvent, getPrevEvent and getNextEventNode calls, getNextEventNode()
\* advances the shared counter as getNextEvent() would and returns the node
\* of the event getNextEvent() would return, null when that returns null,
\* and never indexes the event-node list outside 0 .. n-1.
C25_NodeCallAgrees == sq # <<>> => NodeCallAgrees(sq)

\* the same on a reader constructed on at least one event and only ever
\* asked for the next event or the next node
C25_ForwardOnly ==
    (/\ sq # <<>>
     /\ sq.origin = "constructed"
     /\ sq.n >= 1
     /\ \A k \in 1..Len(sq.calls) : sq.calls[k].op \in {"next", "node"})
        => NodeCallAgrees(sq)

\* ----------------------------------------------------------------------
\* close and the closed reader
\* ----------------------------------------------------------------------
\* isClosed() over the calls: false after construction, true after close(),
\* which changes nothing else, false after a setBuffer that returns, kept
\* by every other call and by a setBuffer that throws
ClosedFlagFollowsCalls ==
    /\ ed.last.op = "none" => ~ed.reader.closed
    /\ ed.last.op = "close" =>
           /\ ed.reader.closed
           /\ ed.reader = [ed.before EXCEPT !.closed = TRUE]
    /\ (ed.last.op = "setBuffer" /\ ed.last.status = "ok") => ~ed.reader.closed
    /\ (ed.last.op \in {"removeStructure", "addStructure"}
          \/ (ed.last.op = "setBuffer" /\ ed.last.status # "ok")) =>
           ed.reader.closed = ed.before.closed

\* the last call was made on a closed reader: removeStructure of a node, or
\* addStructure
EditOnClosed ==
    /\ EditCalled
    /\ ed.before.closed
    /\ ed.last.op = "removeStructure" => ed.last.removeNode # NoNode

\* addStructure arguments that pass the checks made before the closed check
AddArgumentsPass ==
    /\ 4 * Len(ed.last.addBuffer.words) + ed.last.addBuffer.odd >= 8
    /\ ed.last.addBuffer.sameOrder
    /\ ed.last.eventNumber >= 1

\* C22: isClosed() is false after construction, becomes true at the first
\* close(), stays true under further close() calls, which have no other
\* effect, and becomes false again only when setBuffer is called; while the
\* reader is closed, removeStructure of a non-null node and addStructure
\* raise 'object closed' and leave the buffer unchanged.
C22_ClosedReader ==
    ed # <<>> =>
        /\ ClosedFlagFollowsCalls
        /\ EditOnClosed => (ed.last.status = "object closed" /\ LeftAsBefore)

\* C22 as the code has it: addStructure checks its buffer and event number
\* before it looks at closed, so on a closed reader it raises 'object
\* closed' only for arguments that pass those checks, and the error of the
\* failed check otherwise; the buffer is left unchanged either way.
C22_ClosedReaderAmended ==
    ed # <<>> =>
        /\ ClosedFlagFollowsCalls
        /\ EditOnClosed =>
               /\ ed.last.status # "ok"
               /\ LeftAsBefore
               /\ (ed.last.op = "removeStructure" \/ AddArgumentsPass)
                     <=> ed.last.status = "object closed"

\* a closed reader, changed once before, refuses an addStructure with good
\* arguments
C22_RefusedWhenClosed ==
    /\ ed # <<>>
    /\ EditOnClosed
    /\ ed.last.op = "addStructure"
    /\ AddArgumentsPass
    /\ ed.last.status = "object closed"
    /\ ed.edits = 2

\* ----------------------------------------------------------------------
\* the event-index array of the records
\* ----------------------------------------------------------------------
\* entries k.. of a record's index array against the events found by
\* their bank lengths: each entry is the byte length of its event, and the
\* entries before it sum to the event's offset in the payload
RECURSIVE IndexEntriesAgree(_, _, _, _, _, _, _)
IndexEntriesAgree(buf, indexAt, payload, position, k, entries, sum) ==
    IF k > entries THEN TRUE
    ELSE LET entry == EditGetInt(buf, indexAt + 4 * (k - 1))
             bytes == 4 * (EditLength(buf, position) + 1)
         IN  /\ entry = bytes
             /\ sum = position - payload
             /\ IndexEntriesAgree(buf, indexAt, payload, position + bytes, k + 1,
                                  entries, sum + entry)

\* the same for every record from a position on, up to the last record
RECURSIVE IndexAgrees(_, _, _)
IndexAgrees(buf, recordPos, fuel) ==
    LET length == 4 * EditLength(buf, recordPos)
        indexAt == recordPos + 4 * EditLength(buf, recordPos + 8)
        payload == indexAt + EditLength(buf, recordPos + 16)
                     + EditLength(buf, recordPos + 24)
        entries == EditLength(buf, recordPos + 12)
        last == (EditGetInt(buf, recordPos + 20) \div LAST_RECORD_BIT) % 2 = 1
    IN  /\ entries <= MaxWalk
        /\ IndexEntriesAgree(buf, indexAt, payload, payload, 1, entries, 0)
        /\ (last \/ fuel = 0 \/ length <= 0) \/ IndexAgrees(buf, recordPos + length, fuel - 1)

\* C26: in every record of the reader's buffer, after any sequence of
\* successful removeStructure and addStructure calls, each entry of the
\* record's event-index array is the current byte length of its event, and
\* the entries before event i sum to the byte offset of event i from the
\* start of the record's payload.
C26_IndexFollowsEdits ==
    (ed # <<>> /\ (ed.edits = 0 \/ (FirstEdit /\ SuccessfulMutation)))
        => IndexAgrees(ed.reader.buf, 0, MaxWalk)

\* the index of a buffer no structure was removed from or added to
C26_IndexAsWritten ==
    (ed # <<>> /\ ed.edits = 0) => IndexAgrees(ed.reader.buf, 0, MaxWalk)

\* no removeStructure or addStructure ever writes to an index array: the
\* index words of the first record are those before the call, wherever
\* the call left the record header's index length alone
C26_IndexNeverWritten ==
    (EditCalled /\ ed.last.mutated) =>
        \A k \in 1..EditLength(ed.before.buf, 12) :
            EditGetInt(ed.reader.buf, HEADER_SIZE_BYTES + 4 * (k - 1))
              = EditGetInt(ed.before.buf, HEADER_SIZE_BYTES + 4 * (k - 1))

\* the header as writeHeader left it, before any swap
HeaderAsWritten == writeHeader(hdr, EmptyBuffer, hbufOrder)

\* the bytes first .. last of the swapped header are those of the written
\* header in the opposite order
BytesReversed(written, first, last) ==
    SubSeq(hbuf, first, last) = Reverse(SubSeq(written, first, last))

\* C23: evioSwapRecordHeaderV6 reverses the bytes of each of words 0 to 9 and
\* reverses each user register (words 10-11, words 12-13) as one 8-byte
\* quantity, so that a reader of the opposite byte order reads the same ten
\* words and the same two 64-bit register values that were written; applying
\* the swap twice restores the header.
C23_RecordHeaderSwap ==
    hdrPhase \in {"swapped", "restored"} =>
        \E written \in {HeaderAsWritten} :
            /\ hdrPhase = "swapped" =>
                  /\ \A i \in 0..9 :
                        /\ BytesReversed(written, 4 * i + 1, 4 * i + 4)
                        /\ getInt(hbuf, FlipOrder(hbufOrder), 4 * i)
                              = getInt(written, hbufOrder, 4 * i)
                  /\ BytesReversed(written, 41, 48)
                  /\ BytesReversed(written, 49, 56)
                  /\ getLong(hbuf, FlipOrder(hbufOrder), 40)
                        = hdr.recordUserRegisterFirst
                  /\ getLong(hbuf, FlipOrder(hbufOrder), 48)
                        = hdr.recordUserRegisterSecond
            /\ hdrPhase = "restored" => hbuf = written

\* a header with two different registers, neither reading the same in both
\* byte orders, was written little-endian and has been swapped
C23_RegistersSwapped ==
    /\ hdrPhase = "swapped"
    /\ hbufOrder = "LE"
    /\ hdr.recordUserRegisterFirst = <<0, 1234567>>
    /\ hdr.recordUserRegisterSecond = <<-2, -1>>
    /\ getLong(hbuf, "BE", 40) = <<0, 1234567>>
    /\ getLong(hbuf, "LE", 40) # <<0, 1234567>>

\* the last call copied while swapping: evioswap(buf, tolocal, dest) of the
\* C library with dest a buffer of its own
CopyCallDone ==
    /\ sw # NoSwap
    /\ sw.phase \in {"local", "back"}
    /\ ~sw.inPlace
    /\ sw.lang = "c"

\* buf is as it was, and dest holds what the swap in place leaves in buf
CopyAsInPlace ==
    /\ sw.src = sw.arg
    /\ sw.buf = evioswap(sw.arg, sw.phase = "local", TRUE, "c")

\* C24: evioswap with a dest distinct from buf modifies no word of buf, and
\* writes every word of dest, from word 0 to the word the event's length
\* names, with what the swap in place would leave in buf, for opaque, 8-bit,
\* 16-bit data and for 64-bit arrays of any length in words.
C24_CopyEqualsInPlace ==
    CopyCallDone => CopyAsInPlace

\* when every 64-bit array is a whole number of 64-bit values the copy is
\* what the swap in place gives
C24_WholeLongsCopied ==
    (CopyCallDone /\ WholeLongs(sw.leaf)) => CopyAsInPlace

\* buf is never written by a copying call
C24_BufUntouched ==
    CopyCallDone => sw.src = sw.arg

\* the words of dest the copying call never wrote are the last words of
\* 64-bit arrays of odd length
C24_OnlyOddLongsUnwritten ==
    CopyCallDone =>
        \A i \in DOMAIN sw.buf :
            (sw.buf[i] = JunkWord /\ sw.arg[i] # JunkWord) => ~WholeLongs(sw.leaf)

\* the compression type in the first record header of the buffer the reader
\* scanned last
ScannedCompressionType == (EditGetInt(ed.reader.scanned, 36) \div 268435456) % 16

\* C27: scanBuffer takes the decompression path exactly when the first
\* record header of the buffer has a compression type other than 0, and
\* scans the caller's buffer in place (scanUncompressedBuffer) exactly when
\* the data is not compressed.
C27_PathFollowsCompression ==
    ed # <<>> =>
        /\ ed.reader.path = "decompress" <=> ScannedCompressionType # 0
        /\ ed.reader.path = "scanUncompressedBuffer" <=> ScannedCompressionType = 0

\* the scan takes the path the data does not call for: compressed data is
\* scanned in place, plain data goes through the decompression loop
C27_PathInverted ==
    ed # <<>> =>
        /\ ed.reader.path = "decompress" <=> ScannedCompressionType = 0
        /\ ed.reader.path = "scanUncompressedBuffer" <=> ScannedCompressionType # 0

\* compressed data handed to setBuffer is read as if it were events, and
\* no event is found in it
C27_CompressedNeverRead ==
    (ed # <<>> /\ ScannedCompressionType # 0) => ed.reader.eventNodes = <<>>

(***************************************************************************)
(* Claims about the file scans                                             *)
(***************************************************************************)
\* a reader was opened on the closed file, its header buffer in the byte
\* order of the file, and it read the file header
FileScanned ==
    /\ rd.status # "none"
    /\ rd.headerOrder = fw.order
    /\ rd.firstRecordPosition >= 0

\* where the writer put the first record: after the file header and the
\* user header padded to a multiple of 4 (the file header has no index)
FirstRecordWritten ==
    HEADER_SIZE_BYTES + fw.userHeaderLength + getPadding(fw.userHeaderLength)

\* the scan went through forceScanFile: it was asked to, or the file
\* announces no index
ForcedScan == rd.forceScan \/ ~fw.addTrailerIndex

\* C28: the scanner takes the first record of a file to be at header length
\* + index length + user-header length rounded up to a multiple of 4, for
\* every user-header length, the position scanFile derives from the file
\* header's total length.
C28_FirstRecordAligned ==
    FileScanned => rd.firstRecordPosition = FirstRecordWritten

\* scanFile, when it uses the index, starts from the aligned position
C28_IndexScanAligned ==
    (FileScanned /\ ~ForcedScan) => rd.firstRecordPosition = FirstRecordWritten

\* forceScanFile starts from header length + user-header length as
\* recorded, without the padding
C28_ForcedScanUnpadded ==
    (FileScanned /\ ForcedScan) =>
        rd.firstRecordPosition = HEADER_SIZE_BYTES + fw.userHeaderLength

\* a reader was opened, in the byte order of the file, on a closed file
\* whose trailer carries the index
IndexedFileScanned ==
    /\ rd.status # "none"
    /\ rd.headerOrder = fw.order
    /\ fw.addTrailerIndex

\* what the other way of scanning makes of the same file: forceScanFile
\* for a reader built from the index, the index for one built by force
OtherScan == scanFile(fbytes, ~rd.forceScan, rd.headerOrder)

\* the trailer as forceScanFile records it: a record without events
TrailerPosition(bytes, index) ==
    [position |-> Len(bytes) - HEADER_SIZE_BYTES - 8 * Len(index),
     length |-> HEADER_SIZE_BYTES + 8 * Len(index),
     count |-> 0]

\* C29: on a well-formed file with an index, the reader built from the
\* index and the reader built by forceScanFile hold the same number of
\* records, the same position, length and event count for every record, and
\* the same getEventCount().
C29_IndexAndForcedAgree ==
    IndexedFileScanned =>
        \E other \in {OtherScan} :
            /\ other.status = rd.status
            /\ other.recordPositions = rd.recordPositions
            /\ getEventCount(other) = getEventCount(rd)

\* with a user header whose length is a multiple of 4, the forced scan
\* holds the records of the index followed, when the file holds events, by
\* the trailer, and the event counts agree
C29_ForcedAddsTrailer ==
    (IndexedFileScanned /\ getPadding(fw.userHeaderLength) = 0) =>
        \E other \in {OtherScan} :
            \E forced \in {IF rd.forceScan THEN rd ELSE other},
               indexed \in {IF rd.forceScan THEN other ELSE rd} :
                /\ forced.status = "ok"
                /\ indexed.status = "ok"
                /\ forced.recordPositions
                      = (IF fw.index = <<>> THEN indexed.recordPositions
                         ELSE Append(indexed.recordPositions,
                                     TrailerPosition(fbytes, fw.index)))
                /\ getEventCount(forced) = getEventCount(indexed)
                /\ getEventCount(indexed) = fw.added

\* the reader built from the index holds the records as they were written
C29_IndexedAsWritten ==
    (IndexedFileScanned /\ ~rd.forceScan) =>
        /\ rd.status = "ok"
        /\ Len(rd.recordPositions) = Len(fw.index)
        /\ \A r \in 1..Len(fw.index) :
              /\ rd.recordPositions[r].length = fw.index[r][1]
              /\ rd.recordPositions[r].count = fw.index[r][2]
        /\ getEventCount(rd) = fw.added

(***************************************************************************)
(* Claims about the loops of the scans                                     *)
(***************************************************************************)
\* the three loops were run on data that need not be well formed
Walked == rn # <<>> /\ rn.built = "walk"

\* header k of the data walked claims the record length and the header
\* length given
ClaimsLengths(k, recordWords, headerWords) ==
    /\ Len(rn.walk.buf) >= HEADER_SIZE_WORDS * k
    /\ rn.walk.buf[HEADER_SIZE_WORDS * (k - 1) + 1] = recordWords
    /\ rn.walk.buf[HEADER_SIZE_WORDS * (k - 1) + 3] = headerWords

\* C30: scanUncompressedBuffer, forceScanFile and getTotalByteCounts end on
\* every input, a record length of 0, a header length of 0 without entries,
\* records without a last-record bit and data shorter than one header
\* included: each returns or raises an error.
C30_ScansTerminate ==
    Walked =>
        /\ rn.walk.getTotalByteCounts # "never ends"
        /\ rn.walk.scanUncompressedBuffer # "never ends"
        /\ rn.walk.forceScanFile # "hangs"

\* records that lack the last-record bit but claim their true lengths end
\* every loop: getTotalByteCounts runs off the buffer and raises
\* BufferUnderflow, the two scans return
C30_NoLastBitEnds ==
    (Walked /\ \A k \in 1..2 :
                  Len(rn.walk.buf) >= HEADER_SIZE_WORDS * k =>
                      ClaimsLengths(k, HEADER_SIZE_WORDS, HEADER_SIZE_WORDS)) =>
        /\ rn.walk.getTotalByteCounts \in {"returns", "BufferUnderflow"}
        /\ rn.walk.scanUncompressedBuffer = "ok"
        /\ Len(rn.walk.buf) >= HEADER_SIZE_WORDS => rn.walk.forceScanFile = "ok"

\* a loop that never ends has met a header it cannot step over: a record
\* length of 0 for getTotalByteCounts and forceScanFile, a header length of
\* 0 for scanUncompressedBuffer, or, for forceScanFile, a file shorter than
\* one header
C30_EndlessOnlyWithoutProgress ==
    Walked =>
        /\ rn.walk.getTotalByteCounts = "never ends" =>
              \E k \in 1..2 : \E h \in {0, HEADER_SIZE_WORDS} : ClaimsLengths(k, 0, h)
        /\ rn.walk.scanUncompressedBuffer = "never ends" =>
              \E k \in 1..2 : \E r \in {0, HEADER_SIZE_WORDS} : ClaimsLengths(k, r, 0)
        /\ rn.walk.forceScanFile = "hangs" =>
              \/ Len(rn.walk.buf) < HEADER_SIZE_WORDS
              \/ \E k \in 1..2 : \E h \in {0, HEADER_SIZE_WORDS} : ClaimsLengths(k, 0, h)
====
